---- MODULE Spec2Model ----
(***************************************************************************)
(* Knee CT bone segmentation (femur / tibia) and tibia landmark            *)
(* extraction: src/src/components/segmentation.py, analysis.py and the     *)
(* driver src/main.py.                                                     *)
(*                                                                         *)
(* A volume is a function from the voxel grid to a value; a boolean mask   *)
(* (a numpy bool array) is the set of voxels where it is True.  Lengths    *)
(* are whole millimetres, random_value and the random draws are in         *)
(* hundredths (0.65 is 65).  None is the empty tuple.                      *)
(***************************************************************************)
EXTENDS Integers, Sequences, FiniteSets, TLC

\* ------------------------------------------------------------------ bounds
\* Most voxels that carry a label in a drawn input volume.
MaxBone == 2
\* Most labelled voxels in a volume drawn for the tibia landmark finder.
MaxTibiaBone == 3
\* The random generator's stream of draws repeats with this period.
DrawPeriod == 2
\* Largest slice height drawn for the joint locator, and the largest value of
\* its smoothed density profile.
MaxHeight == 20
MaxDensity == 2

\* One voxel of the model stands for this many voxels of a real volume: the
\* source's size thresholds (50, 100, 1000 voxels) are divided by it.
SizeScale == 500

\* ------------------------------------------------------- program constants
bone_threshold == 200
bone_min_size == 50
side_min_size == 100
volume_min_size == 1000
fallback_threshold == 150
fallback_side_min_size == 50
fallback_volume_min_size == 1000
min_bone_volume == 1000
\* expansion_mm and random_value (in hundredths) of the pipeline's four variants
expansion_2mm == 2
expansion_4mm == 4
random_value_1 == 65
random_value_2 == 40

\* Shape (data.shape) of the volumes drawn for the mask expander, the mask
\* randomizer and the tibia landmark finder.
MaskShape == <<3, 2, 2>>
\* Voxel spacings (mm per voxel along X, Y, Z) the loader may report.
VoxelSizeChoices == {<<1, 1, 1>>, <<2, 1, 2>>, <<1, 2, 1>>}
\* Diagonals of the affine (img.affine.diagonal()[:3]) of the images loaded.
AffineChoices == {<<1, 1, 1>>, <<-2, 1, 2>>}
\* expansion_mm: the pipeline's 2.0 and 4.0, and 0 and 3 for the function alone.
ExpansionChoices == {0, 2, 3, 4}
\* random_value in hundredths: the pipeline's 0.40, both ends and one value the
\* clamp cuts.
RandomValueChoices == {0, 40, 100, 150}
\* Values np.random.random() can return, in hundredths: it draws from [0, 1).
DrawLevels == {0, 50, 99}

\* Shape of the volumes drawn for the tibia landmark finder on spacings that
\* are not whole millimetres, and those spacings in hundredths of a mm.
FloatShape == <<4, 1, 3>>
FloatSpacingChoices == {<<70, 70, 70>>, <<50, 25, 300>>, <<10, 100, 35>>}

\* Shape of the CT volumes drawn for the whole pipeline, and their intensities:
\* background, between the fallback's threshold and the primary one, and bone.
KneeShape == <<5, 5, 8>>
\* segment_slice alone: one slice, tall enough for the joint search's window
SliceShape == <<3, 1, 18>>
CuboidMargins == {1}
IntensityLevels == {100, 175, 250}

None == <<>>

\* ------------------------------------------------------------------- grid
Axes == 1..3
Grid(shape) == (0..(shape[1] - 1)) \X (0..(shape[2] - 1)) \X (0..(shape[3] - 1))

\* The voxels of a mask in C order, the order of np.where and of boolean-mask
\* assignment: X slowest, Z fastest.  The box from the origin to the greatest
\* index of each axis is laid out in that order and the mask picked from it.
ScanSeq(mask) ==
    LET extent(a) ==
            LET indices == {p[a] : p \in mask}
            IN  1 + CHOOSE v \in indices : \A u \in indices : u <= v
        ny == extent(2)
        nz == extent(3)
        box == [k \in 1..(extent(1) * ny * nz) |->
                   <<(k - 1) \div (ny * nz), ((k - 1) \div nz) % ny, (k - 1) % nz>>]
        InMask(p) == p \in mask
    IN  IF mask = {} THEN <<>> ELSE SelectSeq(box, InMask)

\* np.zeros_like(volume)
zeros_like(volume) == [p \in DOMAIN volume |-> 0]

\* volume == label
LabelMask(volume, label) == {p \in DOMAIN volume : volume[p] = label}

\* volume[mask] = label
Paint(volume, mask, label) ==
    [p \in DOMAIN volume |-> IF p \in mask THEN label ELSE volume[p]]

RECURSIVE SubsetsUpTo(_, _)
SubsetsUpTo(S, k) ==
    IF k = 0 THEN {{}}
    ELSE LET prev == SubsetsUpTo(S, k - 1)
         IN  prev \cup {T \cup {x} : T \in prev, x \in S}

\* The label volumes drawn as inputs: at most `most` voxels labelled 1 or 2.
InputVolumes(shape, most) ==
    UNION {{[p \in Grid(shape) |-> IF p \in S THEN l[p] ELSE 0] : l \in [S -> {1, 2}]}
           : S \in SubsetsUpTo(Grid(shape), most)}

\* The label volumes that hold tibia only: at most `most` voxels labelled 1.
TibiaVolumes(shape, most) ==
    {[p \in Grid(shape) |-> IF p \in S THEN 1 ELSE 0] : S \in SubsetsUpTo(Grid(shape), most)}

\* ------------------------------------------------------- expand_segmentation
\* int(np.ceil(a / b)) for b > 0
CeilDiv(a, b) == IF a % b = 0 THEN a \div b ELSE (a \div b) + 1

Max(a, b) == IF a >= b THEN a ELSE b
Min(a, b) == IF a <= b THEN a ELSE b

\* Faulty variant of kernel_sizes: the size taken as a radius, 2 * ks + 1.
KernelSizesRadius(voxel_sizes, expansion_mm) ==
    [a \in Axes |-> 2 * Max(1, CeilDiv(expansion_mm, voxel_sizes[a])) + 1]

\* kernel_sizes
KernelSizes(voxel_sizes, expansion_mm) ==
    [a \in Axes |-> Max(1, CeilDiv(expansion_mm, voxel_sizes[a]))]

\* Faulty variant of the dilation: the structure reaches shape[a] voxels to
\* either side along each axis instead of spanning shape[a] voxels.
BinaryDilationRadius(mask, shape, grid) ==
    {v \in grid : \E p \in mask :
        \A a \in Axes : /\ v[a] - p[a] >= -shape[a]
                        /\ v[a] - p[a] <= shape[a]}

\* ndimage.binary_dilation(mask, structure=np.ones(shape)) on the voxels of
\* `grid`, border_value 0: a voxel is set when the box placed on it meets the
\* mask.  The box of size k is centred at k // 2, one less for an even k (scipy
\* mirrors the structure and shifts the origin of an even one), so a True voxel
\* p sets p - k // 2 .. p + (k - 1) // 2 along each axis.
binary_dilation_box(mask, shape, grid) ==
    {v \in grid : \E p \in mask :
        \A a \in Axes : /\ v[a] - p[a] >= -(shape[a] \div 2)
                        /\ v[a] - p[a] <= (shape[a] - 1) \div 2}

\* Faulty variant of expand_segmentation: the two dilated masks are combined
\* by adding their labels, with no treatment of the overlap.
ExpandSumLabels(segmentation_volume, voxel_sizes, expansion_mm) ==
    LET struct_shape == KernelSizes(voxel_sizes, expansion_mm)
        grid == DOMAIN segmentation_volume
        tibia_dilated == binary_dilation_box(LabelMask(segmentation_volume, 1), struct_shape, grid)
        femur_dilated == binary_dilation_box(LabelMask(segmentation_volume, 2), struct_shape, grid)
    IN  [p \in grid |-> (IF p \in tibia_dilated THEN 1 ELSE 0)
                        + (IF p \in femur_dilated THEN 2 ELSE 0)]

\* Faulty variant of expand_segmentation: contested voxels are cleared and the
\* original masks are not written back.
ExpandNoRestore(segmentation_volume, voxel_sizes, expansion_mm) ==
    LET struct_shape == KernelSizes(voxel_sizes, expansion_mm)
        grid == DOMAIN segmentation_volume
        tibia_seg == LabelMask(segmentation_volume, 1)
        femur_seg == LabelMask(segmentation_volume, 2)
        tibia_dilated == binary_dilation_box(tibia_seg, struct_shape, grid)
        femur_dilated == binary_dilation_box(femur_seg, struct_shape, grid)
        overlap == tibia_dilated \cap femur_dilated
        result == zeros_like(segmentation_volume)
    IN  Paint(Paint(result, tibia_dilated \ overlap, 1), femur_dilated \ overlap, 2)

\* Faulty variant of expand_segmentation: the overlap is not reverted, so the
\* femur label, written last, takes every contested voxel.
ExpandFemurWins(segmentation_volume, voxel_sizes, expansion_mm) ==
    LET struct_shape == KernelSizes(voxel_sizes, expansion_mm)
        grid == DOMAIN segmentation_volume
        tibia_dilated == binary_dilation_box(LabelMask(segmentation_volume, 1), struct_shape, grid)
        femur_dilated == binary_dilation_box(LabelMask(segmentation_volume, 2), struct_shape, grid)
        result == zeros_like(segmentation_volume)
    IN  Paint(Paint(result, tibia_dilated, 1), femur_dilated, 2)

\* expand_segmentation(segmentation_volume, voxel_sizes, expansion_mm)
expand_segmentation(segmentation_volume, voxel_sizes, expansion_mm) ==
    LET struct_shape == KernelSizes(voxel_sizes, expansion_mm)
        grid == DOMAIN segmentation_volume
        tibia_seg == LabelMask(segmentation_volume, 1)
        femur_seg == LabelMask(segmentation_volume, 2)
        tibia_dilated == binary_dilation_box(tibia_seg, struct_shape, grid)
        femur_dilated == binary_dilation_box(femur_seg, struct_shape, grid)
        overlap == tibia_dilated \cap femur_dilated
        \* tibia_expanded[overlap] = tibia_seg[overlap]
        tibia_expanded == (tibia_dilated \ overlap) \cup (overlap \cap tibia_seg)
        femur_expanded == (femur_dilated \ overlap) \cup (overlap \cap femur_seg)
        result == zeros_like(segmentation_volume)
    IN  Paint(Paint(result, tibia_expanded, 1), femur_expanded, 2)

\* ------------------------------------------------------ generate_random_mask
\* max(0.0, min(1.0, random_value))
ClampRandomValue(random_value) == Max(0, Min(100, random_value))

\* Faulty variant of the draw test: <= in place of <.
DrawOutcomesInclusive(random_value) == {u <= random_value : u \in DrawLevels}

\* What one element of np.random.random(n) < random_value can be.
DrawOutcomes(random_value) == {u < random_value : u \in DrawLevels}

\* The outcomes of the unseeded generator's successive draws, numbered from 0.
RandomMasks(random_value) == [0..(DrawPeriod - 1) -> DrawOutcomes(random_value)]

\* Faulty variant of expansion_region: everything outside the original label
\* mask, whatever the expanded volume holds there.
ExpansionRegionUnmasked(original_segmentation, expanded_segmentation, label) ==
    (DOMAIN original_segmentation) \ LabelMask(original_segmentation, label)

\* expansion_region = expanded_label_mask & ~original_label_mask
ExpansionRegion(original_segmentation, expanded_segmentation, label) ==
    LabelMask(expanded_segmentation, label) \ LabelMask(original_segmentation, label)

\* temp_expansion[expansion_region] = random_mask: the ring's voxels take the
\* draws in scan order, the ring's first voxel the draw numbered `first`.
TempExpansion(expansion_region, random_mask, first) ==
    LET region == ScanSeq(expansion_region)
    IN  {region[i] : i \in {k \in 1..Len(region) : random_mask[(first + k - 1) % DrawPeriod]}}

\* The body of generate_random_mask after the draws: the loop over label 1,
\* then label 2, which goes on in the generator's stream.
generate_random_mask(original_segmentation, expanded_segmentation, random_mask) ==
    LET region1 == ExpansionRegion(original_segmentation, expanded_segmentation, 1)
        region2 == ExpansionRegion(original_segmentation, expanded_segmentation, 2)
        temp1 == TempExpansion(region1, random_mask, 0)
        temp2 == TempExpansion(region2, random_mask, Cardinality(region1))
        result == zeros_like(original_segmentation)
        after1 == Paint(result, LabelMask(original_segmentation, 1) \cup temp1, 1)
    IN  Paint(after1, LabelMask(original_segmentation, 2) \cup temp2, 2)

\* ------------------------------------------------------- float64 arithmetic
\* A natural number too wide for one machine word is the sequence of its
\* digits in base LimbBase, the least significant first, with no leading zero
\* digit; <<>> is 0.
LimbBits == 15

\* 2^k for 0 <= k
RECURSIVE Pow2(_)
Pow2(k) == IF k = 0 THEN 1 ELSE 2 * Pow2(k - 1)

LimbBase == Pow2(LimbBits)

\* digit + LimbBase * rest
BigCons(digit, rest) == IF digit = 0 /\ rest = <<>> THEN <<>> ELSE <<digit>> \o rest

RECURSIVE BigFromInt(_)
BigFromInt(i) ==
    IF i = 0 THEN <<>> ELSE <<i % LimbBase>> \o BigFromInt(i \div LimbBase)

RECURSIVE BigToInt(_)
BigToInt(n) == IF n = <<>> THEN 0 ELSE n[1] + LimbBase * BigToInt(Tail(n))

\* a + b
RECURSIVE BigAdd(_, _)
BigAdd(a, b) ==
    IF a = <<>> THEN b
    ELSE IF b = <<>> THEN a
    ELSE LET s == a[1] + b[1]
         IN  <<s % LimbBase>>
             \o BigAdd(BigAdd(Tail(a), Tail(b)), BigFromInt(s \div LimbBase))

\* a - b for a >= b
RECURSIVE BigSub(_, _)
BigSub(a, b) ==
    IF b = <<>> THEN a
    ELSE IF a[1] >= b[1]
    THEN BigCons(a[1] - b[1], BigSub(Tail(a), Tail(b)))
    ELSE BigCons(a[1] + LimbBase - b[1], BigSub(BigSub(Tail(a), <<1>>), Tail(b)))

\* -1, 0 or 1 as a < b, a = b or a > b
RECURSIVE BigCmp(_, _)
BigCmp(a, b) ==
    IF Len(a) < Len(b) THEN -1
    ELSE IF Len(a) > Len(b) THEN 1
    ELSE IF a = <<>> THEN 0
    ELSE IF a[Len(a)] < b[Len(b)] THEN -1
    ELSE IF a[Len(a)] > b[Len(b)] THEN 1
    ELSE BigCmp(SubSeq(a, 1, Len(a) - 1), SubSeq(b, 1, Len(b) - 1))

\* a * k for 0 <= k <= LimbBase
RECURSIVE BigMulSmall(_, _)
BigMulSmall(a, k) ==
    IF a = <<>> THEN <<>>
    ELSE LET s == a[1] * k
         IN  BigCons(s % LimbBase,
                     BigAdd(BigMulSmall(Tail(a), k), BigFromInt(s \div LimbBase)))

\* a * 2^s
RECURSIVE BigShl(_, _)
BigShl(a, s) ==
    IF a = <<>> THEN <<>>
    ELSE IF s >= LimbBits THEN <<0>> \o BigShl(a, s - LimbBits)
    ELSE BigMulSmall(a, Pow2(s))

\* a \div 2^s
RECURSIVE BigShr(_, _)
BigShr(a, s) ==
    IF a = <<>> THEN <<>>
    ELSE IF s >= LimbBits THEN BigShr(Tail(a), s - LimbBits)
    ELSE BigCons((a[1] \div Pow2(s))
                 + (IF Len(a) > 1 THEN (a[2] % Pow2(s)) * Pow2(LimbBits - s) ELSE 0),
                 BigShr(Tail(a), s))

\* the number of binary digits of a
RECURSIVE BigBitLen(_)
BigBitLen(a) ==
    IF a = <<>> THEN 0
    ELSE IF Len(a) > 1 THEN LimbBits + BigBitLen(Tail(a))
    ELSE 1 + BigBitLen(BigCons(a[1] \div 2, <<>>))

\* A non-negative float64 is mant * 2^exp with mant of exactly MantBits binary
\* digits, or FZero.  (Subnormals, infinities and NaN do not arise from
\* positive spacings and voxel indices of this size.)
MantBits == 53

FZero == [mant |-> <<>>, exp |-> 0]

\* The float64 nearest to m * 2^e, or to a value just above it when sticky,
\* ties to the even mantissa (round-half-even, the IEEE-754 default).
RoundToFloat(m, e, sticky) ==
    LET len == BigBitLen(m)
    IN  IF m = <<>> THEN FZero
        ELSE IF len <= MantBits
        THEN [mant |-> BigShl(m, MantBits - len), exp |-> e - (MantBits - len)]
        ELSE LET s == len - MantBits
                 q == BigShr(m, s)
                 r == BigSub(m, BigShl(q, s))
                 c == BigCmp(r, BigShl(<<1>>, s - 1))
                 up == c > 0 \/ (c = 0 /\ (sticky \/ q[1] % 2 = 1))
                 q2 == IF up THEN BigAdd(q, <<1>>) ELSE q
             IN  IF BigBitLen(q2) > MantBits
                 THEN [mant |-> BigShr(q2, 1), exp |-> e + s + 1]
                 ELSE [mant |-> q2, exp |-> e + s]

\* float(i) for 0 <= i < LimbBase
FFromInt(i) == RoundToFloat(BigFromInt(i), 0, FALSE)

\* a + b
FAdd(a, b) ==
    IF a = FZero THEN b
    ELSE IF b = FZero THEN a
    ELSE LET e == Min(a.exp, b.exp)
         IN  RoundToFloat(BigAdd(BigShl(a.mant, a.exp - e),
                                 BigShl(b.mant, b.exp - e)), e, FALSE)

\* a < b
FLess(a, b) ==
    IF b = FZero THEN FALSE
    ELSE IF a = FZero THEN TRUE
    ELSE a.exp < b.exp \/ (a.exp = b.exp /\ BigCmp(a.mant, b.mant) < 0)

\* k further binary digits of a division by d that has so far left the
\* quotient st[1] and the remainder st[2]
RECURSIVE DivDigits(_, _, _)
DivDigits(st, d, k) ==
    IF k = 0 THEN st
    ELSE LET r2 == BigAdd(st[2], st[2])
             q2 == BigAdd(st[1], st[1])
         IN  IF BigCmp(r2, d) >= 0
             THEN DivDigits(<<BigAdd(q2, <<1>>), BigSub(r2, d)>>, d, k - 1)
             ELSE DivDigits(<<q2, r2>>, d, k - 1)

\* a / b for b # 0: the quotient of the mantissas to two digits more than a
\* mantissa holds, then rounded; what the remainder adds decides ties
FDiv(a, b) ==
    IF a = FZero THEN FZero
    ELSE LET digits == MantBits + 2
             st == IF BigCmp(a.mant, b.mant) >= 0
                   THEN <<(<<1>>), BigSub(a.mant, b.mant)>>
                   ELSE <<(<<>>), a.mant>>
             r == DivDigits(DivDigits(st, b.mant, digits \div 2),
                            b.mant, digits - digits \div 2)
         IN  RoundToFloat(r[1], a.exp - b.exp - digits, r[2] # <<>>)

\* int(a) for 0 <= a < 2^31: the digits before the binary point
FTrunc(a) ==
    IF a = FZero THEN 0
    ELSE IF a.exp >= 0 THEN BigToInt(BigShl(a.mant, a.exp))
    ELSE BigToInt(BigShr(a.mant, 0 - a.exp))

\* ------------------------------------------------- find_tibia_lowest_points
\* A voxel index scaled to mm: index * voxel_sizes, per axis.
ScaleToMm(p, voxel_sizes) == [a \in Axes |-> p[a] * voxel_sizes[a]]

\* tibia_points
TibiaPoints(segmentation_volume, voxel_sizes) ==
    LET tibia_indices == ScanSeq(LabelMask(segmentation_volume, 1))
    IN  [i \in 1..Len(tibia_indices) |-> ScaleToMm(tibia_indices[i], voxel_sizes)]

\* The sum of points[:, 0] from index i on
RECURSIVE SumXFrom(_, _)
SumXFrom(points, i) == IF i > Len(points) THEN 0 ELSE points[i][1] + SumXFrom(points, i + 1)

SumX(points) == SumXFrom(points, 1)

\* center_x = np.mean(tibia_points[:, 0]) is SumX / Len, so x < center_x is
\* x * Len < SumX.
\* lateral_mask = tibia_points[:, 0] < center_x
LateralMask(tibia_points) ==
    LET total == SumX(tibia_points)
    IN  [i \in 1..Len(tibia_points) |-> tibia_points[i][1] * Len(tibia_points) < total]

\* Faulty variant of medial_mask: > in place of >=.
MedialMaskStrict(tibia_points) ==
    LET total == SumX(tibia_points)
    IN  [i \in 1..Len(tibia_points) |-> tibia_points[i][1] * Len(tibia_points) > total]

\* medial_mask = tibia_points[:, 0] >= center_x
MedialMask(tibia_points) ==
    LET total == SumX(tibia_points)
    IN  [i \in 1..Len(tibia_points) |-> tibia_points[i][1] * Len(tibia_points) >= total]

\* points[mask] for a boolean mask, from index i on
BoolIndexFrom(points, mask, i) ==
    LET Kept(k) == mask[k]
        kept == SelectSeq([k \in 1..(Len(points) - i + 1) |-> k + i - 1], Kept)
    IN  [k \in 1..Len(kept) |-> points[kept[k]]]

\* lateral_points = tibia_points[lateral_mask]
LateralPoints(tibia_points) == BoolIndexFrom(tibia_points, LateralMask(tibia_points), 1)

\* medial_points = tibia_points[medial_mask]
MedialPoints(tibia_points) == BoolIndexFrom(tibia_points, MedialMask(tibia_points), 1)

\* Faulty variant of np.argmin(points[:, 2]): the last index of the least Z.
ArgMinZLast(points) ==
    CHOOSE i \in 1..Len(points) :
        \A j \in 1..Len(points) :
            /\ points[j][3] >= points[i][3]
            /\ (j > i => points[j][3] > points[i][3])

\* np.argmin(points[:, 2]): the first index (from 1) of the least Z.
ArgMinZ(points) ==
    CHOOSE i \in 1..Len(points) :
        \A j \in 1..Len(points) :
            /\ points[j][3] >= points[i][3]
            /\ (j < i => points[j][3] > points[i][3])

\* lateral_lowest, medial_lowest
LowestPoint(points) == IF Len(points) > 0 THEN points[ArgMinZ(points)] ELSE None

\* int(x / v) for x >= 0, v > 0
TruncDiv(x, v) == x \div v

\* lateral_voxel, medial_voxel
ToVoxel(lowest, voxel_sizes) ==
    IF lowest # None THEN [a \in Axes |-> TruncDiv(lowest[a], voxel_sizes[a])] ELSE None

NoTibiaResult ==
    [medial_lowest |-> None, lateral_lowest |-> None,
     medial_voxel |-> None, lateral_voxel |-> None]

\* The body of find_tibia_lowest_points past the no-tibia guard.
FindTibiaBody(segmentation_volume, voxel_sizes) ==
    LET tibia_points == TibiaPoints(segmentation_volume, voxel_sizes)
        lateral_lowest == LowestPoint(LateralPoints(tibia_points))
        medial_lowest == LowestPoint(MedialPoints(tibia_points))
    IN  [medial_lowest |-> medial_lowest, lateral_lowest |-> lateral_lowest,
         medial_voxel |-> ToVoxel(medial_lowest, voxel_sizes),
         lateral_voxel |-> ToVoxel(lateral_lowest, voxel_sizes)]

\* Faulty variant of find_tibia_lowest_points: without tibia it returns the
\* origin for every point instead of None.
FindTibiaZeroDefault(segmentation_volume, voxel_sizes) ==
    IF Cardinality(LabelMask(segmentation_volume, 1)) = 0
    THEN [medial_lowest |-> <<0, 0, 0>>, lateral_lowest |-> <<0, 0, 0>>,
          medial_voxel |-> <<0, 0, 0>>, lateral_voxel |-> <<0, 0, 0>>]
    ELSE FindTibiaBody(segmentation_volume, voxel_sizes)

\* The value returned: (medial_lowest, lateral_lowest, medial_voxel, lateral_voxel).
find_tibia_lowest_points(segmentation_volume, voxel_sizes) ==
    IF Cardinality(LabelMask(segmentation_volume, 1)) = 0
    THEN NoTibiaResult
    ELSE FindTibiaBody(segmentation_volume, voxel_sizes)

\* The same function on spacings that are not whole millimetres, in float64
\* as numpy computes it.
\* tibia_indices * voxel_sizes, per axis: float(index) * spacing
ScaleToFloatMm(p, voxel_sizes) ==
    [a \in Axes |-> RoundToFloat(BigMulSmall(voxel_sizes[a].mant, p[a]),
                                 voxel_sizes[a].exp, FALSE)]

\* tibia_points
FloatTibiaPoints(segmentation_volume, voxel_sizes) ==
    LET tibia_indices == ScanSeq(LabelMask(segmentation_volume, 1))
    IN  [i \in 1..Len(tibia_indices) |-> ScaleToFloatMm(tibia_indices[i], voxel_sizes)]

\* The sum of points[:, 0] up to index i, added in index order as numpy's
\* add.reduce does for fewer than 8 elements
RECURSIVE FloatSumXTo(_, _)
FloatSumXTo(points, i) ==
    IF i = 0 THEN FZero ELSE FAdd(FloatSumXTo(points, i - 1), points[i][1])

\* center_x = np.mean(tibia_points[:, 0]): the sum divided by the count
FloatCenterX(points) == FDiv(FloatSumXTo(points, Len(points)), FFromInt(Len(points)))

\* lateral_mask = tibia_points[:, 0] < center_x
FloatLateralMask(tibia_points) ==
    LET center_x == FloatCenterX(tibia_points)
    IN  [i \in 1..Len(tibia_points) |-> FLess(tibia_points[i][1], center_x)]

\* medial_mask = tibia_points[:, 0] >= center_x
FloatMedialMask(tibia_points) ==
    LET center_x == FloatCenterX(tibia_points)
    IN  [i \in 1..Len(tibia_points) |-> ~FLess(tibia_points[i][1], center_x)]

FloatLateralPoints(tibia_points) ==
    BoolIndexFrom(tibia_points, FloatLateralMask(tibia_points), 1)

FloatMedialPoints(tibia_points) ==
    BoolIndexFrom(tibia_points, FloatMedialMask(tibia_points), 1)

\* points[np.argmin(points[:, 2])]: the first point of the least Z.
FloatLowestPoint(points) ==
    IF Len(points) > 0
    THEN points[CHOOSE i \in 1..Len(points) :
                    \A j \in 1..Len(points) :
                        /\ ~FLess(points[j][3], points[i][3])
                        /\ (j < i => FLess(points[i][3], points[j][3]))]
    ELSE None

\* (int(lowest[0] / voxel_sizes[0]), ...)
FloatToVoxel(lowest, voxel_sizes) ==
    IF lowest # None
    THEN [a \in Axes |-> FTrunc(FDiv(lowest[a], voxel_sizes[a]))]
    ELSE None

\* The value returned for float64 spacings.
find_tibia_lowest_points_float(segmentation_volume, voxel_sizes) ==
    IF Cardinality(LabelMask(segmentation_volume, 1)) = 0
    THEN NoTibiaResult
    ELSE LET tibia_points == FloatTibiaPoints(segmentation_volume, voxel_sizes)
             lateral_lowest == FloatLowestPoint(FloatLateralPoints(tibia_points))
             medial_lowest == FloatLowestPoint(FloatMedialPoints(tibia_points))
         IN  [medial_lowest |-> medial_lowest, lateral_lowest |-> lateral_lowest,
              medial_voxel |-> FloatToVoxel(medial_lowest, voxel_sizes),
              lateral_voxel |-> FloatToVoxel(lateral_lowest, voxel_sizes)]


\* ------------------------------------------------------- find_joint_position
\* array[lo:hi] of a 0-based array held as a sequence
PySlice(array, lo, hi) == SubSeq(array, lo + 1, Min(hi, Len(array)))

\* min_indices as of the given first candidate index, in increasing order; j is
\* the 0-based index into middle_profile.
RECURSIVE MinIndicesFrom(_, _)
MinIndicesFrom(middle_profile, j) ==
    IF j >= Len(middle_profile) - 2 THEN <<>>
    ELSE (IF /\ middle_profile[j + 1] < middle_profile[j]
             /\ middle_profile[j + 1] < middle_profile[j + 2]
          THEN <<j>> ELSE <<>>)
         \o MinIndicesFrom(middle_profile, j + 1)

\* np.argmin(values): the first index (from 1) of the least value.
ArgMin(values) ==
    CHOOSE i \in 1..Len(values) :
        \A j \in 1..Len(values) :
            /\ values[j] >= values[i]
            /\ (j < i => values[j] > values[i])

\* Faulty variant of np.argmin: the last index of the least value.
ArgMinLast(values) ==
    CHOOSE i \in 1..Len(values) :
        \A j \in 1..Len(values) :
            /\ values[j] >= values[i]
            /\ (j > i => values[j] > values[i])

\* Faulty variant of find_joint_position: among candidates of equal depth the
\* last one wins.
JointFromProfileLast(smooth_profile, height) ==
    LET middle_start == height \div 3
        middle_end == (2 * height) \div 3
        middle_profile == PySlice(smooth_profile, middle_start, middle_end)
        min_indices == MinIndicesFrom(middle_profile, 2)
    IN  IF Len(middle_profile) > 5 /\ min_indices # <<>>
        THEN middle_start
             + min_indices[ArgMinLast([k \in 1..Len(min_indices) |->
                                          middle_profile[min_indices[k] + 1]])]
        ELSE height \div 2

\* find_joint_position from the smoothed profile on: smooth_profile is
\* ndimage.gaussian_filter1d(np.sum(bone_mask, axis=0), sigma=5), of length
\* height.
JointFromProfile(smooth_profile, height) ==
    LET middle_start == height \div 3
        middle_end == (2 * height) \div 3
        middle_profile == PySlice(smooth_profile, middle_start, middle_end)
        min_indices == MinIndicesFrom(middle_profile, 2)
    IN  IF Len(middle_profile) > 5 /\ min_indices # <<>>
        THEN middle_start
             + min_indices[ArgMin([k \in 1..Len(min_indices) |->
                                      middle_profile[min_indices[k] + 1]])]
        ELSE height \div 2

\* The smoothed profiles drawn for a slice of the given height: any value up to
\* MaxDensity in the middle third, the only part find_joint_position reads,
\* and 0 outside.
SmoothProfiles(height) ==
    LET window == {i \in 1..height : i > height \div 3 /\ i <= (2 * height) \div 3}
    IN  {[i \in 1..height |-> IF i \in window THEN w[i] ELSE 0] :
            w \in [window -> 0..MaxDensity]}

\* ----------------------------------------------------- morphology (library)
\* Face neighbours: connectivity 1, the default of remove_small_objects and of
\* binary_fill_holes.  In a slice (fixed Y) these are the 4 neighbours.
FaceNeighbours(p) ==
    {[p EXCEPT ![a] = p[a] + step] : a \in Axes, step \in {-1, 1}}

\* The voxels of `within` connected to `reached` through face neighbours;
\* `frontier` is the part of `reached` whose neighbours are still to be
\* visited.  The search stops once `enough` voxels are reached.
RECURSIVE Flood(_, _, _, _)
Flood(frontier, reached, within, enough) ==
    LET found == (UNION {FaceNeighbours(p) : p \in frontier} \cap within) \ reached
    IN  IF found = {} \/ Cardinality(reached) >= enough THEN reached
        ELSE Flood(found, reached \cup found, within, enough)

\* morphology.remove_small_objects(mask, min_size): drops every connected
\* component of fewer than min_size voxels.
remove_small_objects(mask, min_size) ==
    {p \in mask : Cardinality(Flood({p}, {p}, mask, min_size)) >= min_size}

\* ndimage.binary_erosion(mask, structure=np.ones(shape)), border_value 0: a
\* voxel stays when the whole box placed on it lies in the mask; the part of
\* the box outside the array counts as background.
binary_erosion_box(mask, shape, grid) ==
    {v \in mask :
        \A o \in Grid([a \in Axes |-> shape[a]]) :
            [a \in Axes |-> v[a] + o[a] - (shape[a] \div 2)] \in mask}

\* ndimage.binary_closing(mask, structure=np.ones(shape)): dilation, then
\* erosion, both with border_value 0.
binary_closing_box(mask, shape, grid) ==
    binary_erosion_box(binary_dilation_box(mask, shape, grid), shape, grid)

\* On the array's border: a face neighbour lies outside the array.
OnBorder(p, grid) ==
    \E a \in Axes : \E step \in {-1, 1} :
        [p EXCEPT ![a] = p[a] + step] \notin grid

\* ndimage.binary_fill_holes(mask): the background voxels not connected to the
\* outside of the array through background face neighbours are filled.
binary_fill_holes(mask, grid) ==
    LET background == grid \ mask
        border == {p \in background : OnBorder(p, grid)}
        outside == Flood(border, border, background, Cardinality(grid))
    IN  grid \ outside

\* morphology.disk(2): the offsets (dx, dz) of a slice with dx^2 + dz^2 <= 4.
InDisk2(p, q) ==
    /\ p[2] = q[2]
    /\ (p[1] - q[1]) * (p[1] - q[1]) + (p[3] - q[3]) * (p[3] - q[3]) <= 4

\* skimage morphology.binary_closing(mask, disk(2)) on one slice (`plane` is the
\* slice's voxels): binary_dilation, outside the image False, then
\* binary_erosion, outside the image True.
binary_closing_disk(mask, plane) ==
    LET dilated == {v \in plane : \E p \in mask : InDisk2(v, p)}
    IN  {v \in plane : \A q \in plane : InDisk2(v, q) => q \in dilated}

\* ------------------------------------------- segment_slice and the assembler
\* The voxels of slice data[:, i, :].
SlicePlane(grid, i) == {p \in grid : p[2] = i}

\* slice_data.shape[1], the extent along Z.
SliceHeight(grid) == Cardinality({p[3] : p \in grid})

\* data.shape[1], the extent along Y.
SliceCount(grid) == Cardinality({p[2] : p \in grid})

\* int(data.shape[1] * 0.2) and int(data.shape[1] * 0.8)
StartSlice(grid) == (2 * SliceCount(grid)) \div 10
EndSlice(grid) == (8 * SliceCount(grid)) \div 10

\* A voxel count of the source in the model's voxels: one voxel of the model
\* stands for SizeScale voxels, and a size threshold is at least 1.
ModelSize(voxels) == Max(1, voxels \div SizeScale)

\* create_bone_mask(slice_data, bone_threshold, min_size=50)
create_bone_mask(data, plane, threshold) ==
    binary_closing_disk(
        remove_small_objects({p \in plane : data[p] > threshold}, ModelSize(bone_min_size)),
        plane)

\* vertical_profile = np.sum(bone_mask, axis=0): the bone voxels of each row Z.
VerticalProfile(bone_mask, height) ==
    [z \in 1..height |-> Cardinality({p \in bone_mask : p[3] = z - 1})]

\* What ndimage.gaussian_filter1d(vertical_profile, sigma=5) can return, as far
\* as find_joint_position reads it: in the middle third every value is a
\* weighted mean of the input's values (the kernel is positive and normalised,
\* the ends reflect), so it lies between the least and the greatest of them.
SmoothOutcomes(vertical_profile) ==
    LET height == Len(vertical_profile)
        values == {vertical_profile[i] : i \in 1..height}
        least == CHOOSE v \in values : \A u \in values : v <= u
        greatest == CHOOSE v \in values : \A u \in values : v >= u
        window == {i \in 1..height : i > height \div 3 /\ i <= (2 * height) \div 3}
    IN  IF height = 0 THEN {<<>>}
        ELSE {[i \in 1..height |-> IF i \in window THEN w[i] ELSE least] :
                 w \in [window -> least..greatest]}

\* The joint positions find_joint_position(bone_mask, height) can return.
find_joint_position(bone_mask, height) ==
    {JointFromProfile(smooth, height) :
        smooth \in SmoothOutcomes(VerticalProfile(bone_mask, height))}

\* np.max(slice_data) < bone_threshold
NoBonePresent(data, plane, threshold) == \A p \in plane : data[p] < threshold

\* Faulty variant of segment_slice_masks: the femur mask keeps the row at
\* joint_position, femur_mask[:, joint_position + 1:] = False.
SegmentSliceMasksInclusive(data, plane, height, joint_position) ==
    LET bone == create_bone_mask(data, plane, bone_threshold)
    IN  [femur_mask |-> remove_small_objects({p \in bone : p[3] <= joint_position},
                                             ModelSize(side_min_size)),
         tibia_mask |-> remove_small_objects({p \in bone : p[3] >= joint_position},
                                             ModelSize(side_min_size))]

\* segment_slice past the no-bone guard, with the joint position found:
\* (femur_mask, tibia_mask).
segment_slice_masks(data, plane, height, joint_position) ==
    LET bone_mask == create_bone_mask(data, plane, bone_threshold)
    IN  [femur_mask |-> remove_small_objects({p \in bone_mask : p[3] < joint_position},
                                             ModelSize(side_min_size)),
         tibia_mask |-> remove_small_objects({p \in bone_mask : p[3] >= joint_position},
                                             ModelSize(side_min_size))]

\* ---------------------------------------------------- apply_3d_postprocessing
Box(n) == <<n, n, n>>

\* Faulty variant of apply_3d_postprocessing: the tibia label is written last.
ApplyPostprocessingTibiaLast(segmentation_volume) ==
    LET grid == DOMAIN segmentation_volume
        closed(label) ==
            binary_closing_box(binary_fill_holes(LabelMask(segmentation_volume, label), grid),
                               Box(3), grid)
        tibia_seg == remove_small_objects(closed(1), ModelSize(volume_min_size))
        femur_seg == remove_small_objects(closed(2), ModelSize(volume_min_size))
        result == zeros_like(segmentation_volume)
    IN  Paint(Paint(result, femur_seg, 2), tibia_seg, 1)

apply_3d_postprocessing(segmentation_volume) ==
    LET grid == DOMAIN segmentation_volume
        closed(label) ==
            binary_closing_box(binary_fill_holes(LabelMask(segmentation_volume, label), grid),
                               Box(3), grid)
        tibia_seg == remove_small_objects(closed(1), ModelSize(volume_min_size))
        femur_seg == remove_small_objects(closed(2), ModelSize(volume_min_size))
        result == zeros_like(segmentation_volume)
    IN  Paint(Paint(result, tibia_seg, 1), femur_seg, 2)

\* ------------------------------------------------------ fallback_segmentation
\* Faulty variant of the fallback's masks of slice i: the tibia mask keeps the
\* row before mid_point, tibia_mask[:, :mid_point - 1] = False.
FallbackSliceMasksOverlapping(data, i) ==
    LET grid == DOMAIN data
        mid_point == SliceHeight(grid) \div 2
        bone == {p \in SlicePlane(grid, i) : data[p] > fallback_threshold}
    IN  [femur_mask |-> remove_small_objects({p \in bone : p[3] < mid_point},
                                             ModelSize(fallback_side_min_size)),
         tibia_mask |-> remove_small_objects({p \in bone : p[3] >= mid_point - 1},
                                             ModelSize(fallback_side_min_size))]

\* The body of the fallback's loop for slice i: (femur_mask, tibia_mask).
FallbackSliceMasks(data, i) ==
    LET grid == DOMAIN data
        mid_point == SliceHeight(grid) \div 2
        bone == {p \in SlicePlane(grid, i) : data[p] > fallback_threshold}
    IN  [femur_mask |-> remove_small_objects({p \in bone : p[3] < mid_point},
                                             ModelSize(fallback_side_min_size)),
         tibia_mask |-> remove_small_objects({p \in bone : p[3] >= mid_point},
                                             ModelSize(fallback_side_min_size))]

\* The loop over the slices: the volume with every slice of
\* [start_slice, end_slice) painted.
FallbackSlices(data, start_slice, end_slice) ==
    LET slices == start_slice..(end_slice - 1)
    IN  Paint(Paint(zeros_like(data),
                    UNION {FallbackSliceMasks(data, i).tibia_mask : i \in slices}, 1),
              UNION {FallbackSliceMasks(data, i).femur_mask : i \in slices}, 2)

fallback_segmentation(data, start_slice, end_slice) ==
    LET grid == DOMAIN data
        segmentation_volume == FallbackSlices(data, start_slice, end_slice)
        closed(label) ==
            binary_fill_holes(
                binary_closing_box(LabelMask(segmentation_volume, label), Box(5), grid), grid)
        tibia_seg == remove_small_objects(closed(1), ModelSize(fallback_volume_min_size))
        femur_seg == remove_small_objects(closed(2), ModelSize(fallback_volume_min_size))
        result == zeros_like(data)
    IN  Paint(Paint(result, tibia_seg, 1), femur_seg, 2)

\* ------------------------------------------------------------------ state
VARIABLES
    pc,                      \* the stage reached
    original_segmentation,   \* the label volume the variants derive from
    voxel_sizes,             \* mm per voxel along X, Y, Z
    expansion_mm,            \* the distance of the last expansion
    expanded_segmentation,   \* expand_segmentation's result
    random_value,            \* the factor of the last randomization
    random_segmentation,     \* generate_random_mask's result
    lateral_points,          \* find_tibia_lowest_points: the points with X < mean X
    medial_points,           \* find_tibia_lowest_points: the points with X >= mean X
    tibia_result,            \* what find_tibia_lowest_points returned
    height,                  \* the slice height given to find_joint_position
    smooth_profile,          \* its smoothed density profile
    joint_position,          \* what find_joint_position returned
    bone_mask,               \* segment_slice: the bone mask of the slice
    femur_mask,              \* segment_slice: the two masks it returned
    tibia_mask,
    slice_stage,             \* slices taken in any order: how far each slice is
    data,                    \* segment_knee: the CT volume loaded
    slice_index,             \* segment_knee: i of the slice loop
    segmentation_volume,     \* segment_knee: the volume being assembled
    expanded_2mm,            \* segment_knee: the four variants
    expanded_4mm,
    random_1,
    random_2,
    tibia_points,            \* segment_knee: the landmarks of each mask so far
    entry,                   \* segment_knee: which of its two copies runs
    input_path,              \* segment_knee: the caller's argument
    disk,                    \* the input files that exist, by path
    output_dirs,             \* the directories os.makedirs has made
    output_files,            \* the files written, by output key
    printed,                 \* the warnings printed so far
    error                    \* the exception segment_knee raised, if any

maskVars == <<expansion_mm, expanded_segmentation, random_value, random_segmentation>>
tibiaVars == <<lateral_points, medial_points, tibia_result>>
jointVars == <<height, smooth_profile, joint_position>>
sliceVars == <<bone_mask, femur_mask, tibia_mask, slice_stage>>

runVars == <<entry, input_path, disk>>
kneeVars == <<data, slice_index, segmentation_volume, expanded_2mm, expanded_4mm,
              random_1, random_2, tibia_points, runVars, output_dirs, output_files,
              printed, error>>

vars == <<pc, original_segmentation, voxel_sizes, maskVars, tibiaVars, jointVars, sliceVars,
          kneeVars>>

NoMask ==
    /\ expansion_mm = 0
    /\ expanded_segmentation = zeros_like(original_segmentation)
    /\ random_value = 0
    /\ random_segmentation = zeros_like(original_segmentation)

NoTibia ==
    /\ lateral_points = <<>>
    /\ medial_points = <<>>
    /\ tibia_result = NoTibiaResult

NoJoint ==
    /\ height = 0
    /\ smooth_profile = <<>>
    /\ joint_position = 0

NoSlice ==
    /\ bone_mask = {}
    /\ femur_mask = {}
    /\ tibia_mask = {}
    /\ slice_stage = <<>>

NoKnee ==
    /\ data = <<>>
    /\ slice_index = 0
    /\ segmentation_volume = <<>>
    /\ expanded_2mm = <<>>
    /\ expanded_4mm = <<>>
    /\ random_1 = <<>>
    /\ random_2 = <<>>
    /\ tibia_points = <<>>
    /\ entry = ""
    /\ input_path = ""
    /\ disk = <<>>
    /\ output_dirs = {}
    /\ output_files = <<>>
    /\ printed = {}
    /\ error = <<>>

\* ---------------------------------------------- mask expander and randomizer
MaskInit ==
    /\ pc = "original"
    /\ original_segmentation \in InputVolumes(MaskShape, MaxBone)
    /\ voxel_sizes \in VoxelSizeChoices
    /\ NoMask
    /\ NoTibia
    /\ NoJoint
    /\ NoSlice
    /\ NoKnee

ExpandSegmentation ==
    /\ pc = "original"
    /\ \E mm \in ExpansionChoices :
        /\ expansion_mm' = mm
        /\ expanded_segmentation' = expand_segmentation(original_segmentation, voxel_sizes, mm)
    /\ pc' = "expanded"
    /\ UNCHANGED <<original_segmentation, voxel_sizes, random_value, random_segmentation,
                   tibiaVars, jointVars, sliceVars,
                   kneeVars>>

GenerateRandomMask ==
    /\ pc = "expanded"
    /\ \E rv \in RandomValueChoices :
        \E random_mask \in RandomMasks(ClampRandomValue(rv)) :
            /\ random_value' = rv
            /\ random_segmentation' =
                  generate_random_mask(original_segmentation, expanded_segmentation, random_mask)
    /\ pc' = "randomized"
    /\ UNCHANGED <<original_segmentation, voxel_sizes, expansion_mm, expanded_segmentation,
                   tibiaVars, jointVars, sliceVars,
                   kneeVars>>

MaskNext == ExpandSegmentation \/ GenerateRandomMask

MaskSpec == MaskInit /\ [][MaskNext]_vars

\* generate_random_mask called on its own: any two label volumes of one shape
\* as original and expanded.
RandomInit ==
    /\ pc = "expanded"
    /\ original_segmentation \in InputVolumes(MaskShape, MaxBone)
    /\ voxel_sizes = <<1, 1, 1>>
    /\ expansion_mm = 0
    /\ expanded_segmentation \in InputVolumes(MaskShape, MaxBone)
    /\ random_value = 0
    /\ random_segmentation = zeros_like(original_segmentation)
    /\ NoTibia
    /\ NoJoint
    /\ NoSlice
    /\ NoKnee

RandomSpec == RandomInit /\ [][GenerateRandomMask]_vars

\* ------------------------------------------------------------ segment_slice
\* The slices drawn for segment_slice: an upper and a lower block of rows at
\* their own widths and intensity, `gap` rows of background between them.
SliceImages ==
    {[p \in Grid(SliceShape) |->
         IF p[3] < split /\ p[1] < upper_width THEN level
         ELSE IF p[3] >= split + gap /\ p[1] < lower_width THEN level
         ELSE 100] :
        split \in 0..SliceShape[3], gap \in {0, 1, 3, 6},
        upper_width \in 0..SliceShape[1], lower_width \in 0..SliceShape[1],
        level \in {175, 200, 250}}

SliceInit ==
    /\ pc = "slice"
    /\ data \in SliceImages
    /\ original_segmentation = <<>>
    /\ voxel_sizes = <<1, 1, 1>>
    /\ expansion_mm = 0
    /\ expanded_segmentation = <<>>
    /\ random_value = 0
    /\ random_segmentation = <<>>
    /\ NoTibia
    /\ NoJoint
    /\ NoSlice
    /\ slice_index = 0
    /\ segmentation_volume = <<>>
    /\ expanded_2mm = <<>>
    /\ expanded_4mm = <<>>
    /\ random_1 = <<>>
    /\ random_2 = <<>>
    /\ tibia_points = <<>>
    /\ entry = ""
    /\ input_path = ""
    /\ disk = <<>>
    /\ output_dirs = {}
    /\ output_files = <<>>
    /\ printed = {}
    /\ error = <<>>

\* segment_slice(slice_data, bone_threshold) on the slice data[:, 0, :].
segment_slice ==
    /\ pc = "slice"
    /\ LET plane == SlicePlane(DOMAIN data, 0)
       IN  /\ height' = SliceHeight(DOMAIN data)
           /\ bone_mask' = create_bone_mask(data, plane, bone_threshold)
           /\ IF NoBonePresent(data, plane, bone_threshold)
              THEN /\ pc' = "none_returned"
                   /\ UNCHANGED <<joint_position, femur_mask, tibia_mask>>
              ELSE /\ joint_position' \in find_joint_position(bone_mask', height')
                   /\ LET masks == segment_slice_masks(data, plane, height', joint_position')
                      IN  /\ femur_mask' = masks.femur_mask
                          /\ tibia_mask' = masks.tibia_mask
                   /\ pc' = "masks_returned"
    /\ UNCHANGED <<original_segmentation, voxel_sizes, maskVars, tibiaVars, smooth_profile,
                   slice_stage, kneeVars>>

SliceSpec == SliceInit /\ [][segment_slice]_vars

\* --------------------------------------- the slice loop, slices in any order
\* The volumes drawn for the slice loop: every plane Y has its own split row
\* and its own pair of intensities, the planes outside the loop's range too.
AssemblerImages ==
    {[p \in Grid(KneeShape) |->
         IF p[1] = 0 \/ p[1] = KneeShape[1] - 1 \/ p[3] = 0 \/ p[3] = KneeShape[3] - 1 THEN 100
         ELSE IF p[3] < kind[p[2]][1] THEN kind[p[2]][2] ELSE kind[p[2]][3]] :
        kind \in [0..(KneeShape[2] - 1) ->
                    {<<4, 250, 250>>, <<2, 250, 100>>, <<6, 100, 250>>}]}

\* femur_mask, tibia_mask = segment_slice(data[:, i, :]) for each joint position
\* the search can return; two empty masks stand for (None, None), on which the
\* loop writes nothing.
SliceMasksAt(volume_data, i) ==
    LET plane == SlicePlane(DOMAIN volume_data, i)
        slice_height == SliceHeight(DOMAIN volume_data)
    IN  IF NoBonePresent(volume_data, plane, bone_threshold)
        THEN {[femur_mask |-> {}, tibia_mask |-> {}]}
        ELSE {segment_slice_masks(volume_data, plane, slice_height, joint) :
                 joint \in find_joint_position(
                              create_bone_mask(volume_data, plane, bone_threshold), slice_height)}

\* The volumes the sequential loop, for i in range(i, end_slice), can leave.
RECURSIVE AssembleFrom(_, _, _, _)
AssembleFrom(volume, volume_data, i, end_slice) ==
    IF i >= end_slice THEN {volume}
    ELSE UNION {AssembleFrom(Paint(Paint(volume, masks.tibia_mask, 1), masks.femur_mask, 2),
                             volume_data, i + 1, end_slice) :
                   masks \in SliceMasksAt(volume_data, i)}

AssemblerInit ==
    /\ pc = "any_order"
    /\ data \in AssemblerImages
    /\ segmentation_volume = zeros_like(data)
    /\ slice_stage = [i \in StartSlice(DOMAIN data)..(EndSlice(DOMAIN data) - 1) |->
                         [written |-> 0, masks |-> <<>>]]
    /\ bone_mask = {}
    /\ femur_mask = {}
    /\ tibia_mask = {}
    /\ original_segmentation = <<>>
    /\ voxel_sizes = <<1, 1, 1>>
    /\ expansion_mm = 0
    /\ expanded_segmentation = <<>>
    /\ random_value = 0
    /\ random_segmentation = <<>>
    /\ NoTibia
    /\ NoJoint
    /\ slice_index = 0
    /\ expanded_2mm = <<>>
    /\ expanded_4mm = <<>>
    /\ random_1 = <<>>
    /\ random_2 = <<>>
    /\ tibia_points = <<>>
    /\ entry = ""
    /\ input_path = ""
    /\ disk = <<>>
    /\ output_dirs = {}
    /\ output_files = <<>>
    /\ printed = {}
    /\ error = <<>>

\* Faulty variant of the tibia write: segmentation_volume[:, i:, :], every
\* plane from i on, in place of plane i.
WriteTibiaOnward(i) ==
    /\ pc = "any_order"
    /\ i \in DOMAIN slice_stage
    /\ slice_stage[i].written = 0
    /\ \E masks \in SliceMasksAt(data, i) :
          /\ segmentation_volume' =
                Paint(segmentation_volume,
                      {p \in DOMAIN data : p[2] >= i /\ <<p[1], i, p[3]>> \in masks.tibia_mask}, 1)
          /\ slice_stage' = [slice_stage EXCEPT ![i] = [written |-> 1, masks |-> masks]]
    /\ UNCHANGED <<pc, data, slice_index, original_segmentation, voxel_sizes, expanded_2mm,
                   expanded_4mm, random_1, random_2, tibia_points, runVars, output_dirs,
                   output_files, printed, error, maskVars, tibiaVars, jointVars,
                   bone_mask, femur_mask, tibia_mask>>

\* The pass of the loop for slice i, up to its first write:
\* segment_slice(data[:, i, :]) and segmentation_volume[:, i, :][tibia_mask] = 1.
WriteTibia(i) ==
    /\ pc = "any_order"
    /\ i \in DOMAIN slice_stage
    /\ slice_stage[i].written = 0
    /\ \E masks \in SliceMasksAt(data, i) :
          /\ segmentation_volume' = Paint(segmentation_volume, masks.tibia_mask, 1)
          /\ slice_stage' = [slice_stage EXCEPT ![i] = [written |-> 1, masks |-> masks]]
    /\ UNCHANGED <<pc, data, slice_index, original_segmentation, voxel_sizes, expanded_2mm,
                   expanded_4mm, random_1, random_2, tibia_points, runVars, output_dirs,
                   output_files, printed, error, maskVars, tibiaVars, jointVars,
                   bone_mask, femur_mask, tibia_mask>>

\* The rest of the pass: segmentation_volume[:, i, :][femur_mask] = 2.
WriteFemur(i) ==
    /\ pc = "any_order"
    /\ i \in DOMAIN slice_stage
    /\ slice_stage[i].written = 1
    /\ segmentation_volume' = Paint(segmentation_volume, slice_stage[i].masks.femur_mask, 2)
    /\ slice_stage' = [slice_stage EXCEPT ![i].written = 2]
    /\ UNCHANGED <<pc, data, slice_index, original_segmentation, voxel_sizes, expanded_2mm,
                   expanded_4mm, random_1, random_2, tibia_points, runVars, output_dirs,
                   output_files, printed, error, maskVars, tibiaVars, jointVars,
                   bone_mask, femur_mask, tibia_mask>>

\* The passes of the loop taken in any order, their writes interleaved.
AssemblerSpec ==
    AssemblerInit /\ [][\E i \in 0..(KneeShape[2] - 1) : WriteTibia(i) \/ WriteFemur(i)]_vars

\* ---------------------------------------------------- tibia landmark finder
TibiaInit ==
    /\ pc = "volume"
    /\ original_segmentation \in InputVolumes(MaskShape, MaxTibiaBone)
    /\ voxel_sizes \in VoxelSizeChoices
    /\ NoMask
    /\ NoTibia
    /\ NoJoint
    /\ NoSlice
    /\ NoKnee

FindTibiaLowestPoints ==
    /\ pc = "volume"
    /\ LET points == TibiaPoints(original_segmentation, voxel_sizes)
       IN  /\ lateral_points' = LateralPoints(points)
           /\ medial_points' = MedialPoints(points)
    /\ tibia_result' = find_tibia_lowest_points(original_segmentation, voxel_sizes)
    /\ pc' = "landmarks"
    /\ UNCHANGED <<original_segmentation, voxel_sizes, maskVars, jointVars, sliceVars,
                   kneeVars>>

TibiaSpec == TibiaInit /\ [][FindTibiaLowestPoints]_vars

\* ---------------------------- tibia landmark finder, spacings in float64
FloatTibiaInit ==
    /\ pc = "float_volume"
    /\ original_segmentation \in TibiaVolumes(FloatShape, MaxTibiaBone)
    /\ \E hundredths \in FloatSpacingChoices :
          voxel_sizes = [a \in Axes |-> FDiv(FFromInt(hundredths[a]), FFromInt(100))]
    /\ NoMask
    /\ NoTibia
    /\ NoJoint
    /\ NoSlice
    /\ NoKnee

FindTibiaLowestPointsFloat ==
    /\ pc = "float_volume"
    /\ LET points == FloatTibiaPoints(original_segmentation, voxel_sizes)
       IN  /\ lateral_points' = FloatLateralPoints(points)
           /\ medial_points' = FloatMedialPoints(points)
    /\ tibia_result' = find_tibia_lowest_points_float(original_segmentation, voxel_sizes)
    /\ pc' = "float_landmarks"
    /\ UNCHANGED <<original_segmentation, voxel_sizes, maskVars, jointVars, sliceVars,
                   kneeVars>>

FloatTibiaSpec == FloatTibiaInit /\ [][FindTibiaLowestPointsFloat]_vars

\* ------------------------------------------------------------ joint locator
JointInit ==
    /\ pc = "profile"
    /\ height \in 0..MaxHeight
    /\ smooth_profile \in SmoothProfiles(height)
    /\ joint_position = 0
    /\ original_segmentation = [p \in Grid(MaskShape) |-> 0]
    /\ voxel_sizes = <<1, 1, 1>>
    /\ NoMask
    /\ NoTibia
    /\ NoSlice
    /\ NoKnee

FindJointPosition ==
    /\ pc = "profile"
    /\ joint_position' = JointFromProfile(smooth_profile, height)
    /\ pc' = "joint"
    /\ UNCHANGED <<original_segmentation, voxel_sizes, maskVars, tibiaVars,
                   height, smooth_profile, sliceVars, kneeVars>>

JointSpec == JointInit /\ [][FindJointPosition]_vars

\* ------------------------------------------------------------ segment_knee
MaskNames == <<"Original", "Expanded 2mm", "Expanded 4mm", "Random 1 (65%)", "Random 2 (40%)">>

\* The two copies of segment_knee.
MainEntry == "src/main.py"
ComponentsEntry == "src/src/components/main.py"

\* The input_path run_main passes, and the one the copy under components
\* assigns to input_path in its first statement.
RunMainPath == "data/3702_left_knee.nii.gz"
HardCodedPath == "../../data/3702_left_knee.nii.gz"
Paths == {RunMainPath, HardCodedPath}

\* input_path as the body of segment_knee reads it.
InputPath(e, path) == IF e = ComponentsEntry THEN HardCodedPath ELSE path

\* output_paths when the caller gives none: <<directory, file name>> by key.
output_paths(e) ==
    LET output_dir == IF e = ComponentsEntry THEN "data/output" ELSE "output"
    IN  [original |-> <<output_dir, "original_mask.nii.gz">>,
         expanded_2mm |-> <<output_dir, "expanded_2mm_mask.nii.gz">>,
         expanded_4mm |-> <<output_dir, "expanded_4mm_mask.nii.gz">>,
         random_1 |-> <<output_dir, "random_mask_1.nii.gz">>,
         random_2 |-> <<output_dir, "random_mask_2.nii.gz">>]

\* segmentation_volume.astype(np.int16)
astype_int16(volume) ==
    [p \in DOMAIN volume |-> ((volume[p] + 32768) % 65536) - 32768]

\* save_segmentation(volume, img, output_paths[key]): the files after it.
save_segmentation(files, volume, key) == (key :> astype_int16(volume)) @@ files

FallbackWarning == "Warning: Insufficient bone volume detected. Applying fallback method..."
VisualizationSkipped == "Visualization skipped."

\* What leaves segment_knee when e is raised in its body: src/main.py catches
\* every Exception and raises CustomException(e, sys), an exception made from
\* the one caught; the copy under components has no handler.
Raised(which, e) == IF which = MainEntry THEN <<"CustomException">> \o e ELSE e

\* The CT volume of two cuboids stacked along Z, the upper one over the rows
\* below split and the lower one from split on, each at one intensity, both
\* inset from every face of the volume by margin; background around.
Cuboids(shape, margin, split, upper, lower) ==
    LET background == CHOOSE v \in IntensityLevels : \A u \in IntensityLevels : v <= u
    IN  [p \in Grid(shape) |->
            IF \E a \in Axes : p[a] < margin \/ p[a] >= shape[a] - margin THEN background
            ELSE IF p[3] < split THEN upper ELSE lower]

\* The images drawn for the pipeline: a CT volume and the diagonal of its affine.
KneeImages ==
    {[data |-> Cuboids(KneeShape, margin, split, upper, lower),
      affine_diagonal |-> diagonal] :
        margin \in CuboidMargins, split \in 0..KneeShape[3],
        upper \in IntensityLevels, lower \in IntensityLevels, diagonal \in AffineChoices}

\* The images drawn for the runs that may fail: two cuboids of bone, and a
\* lower cuboid of bone under an upper one only the fallback's threshold finds.
RunImages ==
    {[data |-> Cuboids(KneeShape, margin, KneeShape[3] \div 2, upper, 250),
      affine_diagonal |-> <<-1, 1, 1>>] :
        margin \in CuboidMargins, upper \in {175, 250}}

NotStarted ==
    /\ pc = "start"
    /\ data = <<>>
    /\ voxel_sizes = <<>>
    /\ segmentation_volume = <<>>
    /\ slice_index = 0
    /\ original_segmentation = <<>>
    /\ expanded_2mm = <<>>
    /\ expanded_4mm = <<>>
    /\ random_1 = <<>>
    /\ random_2 = <<>>
    /\ tibia_points = <<>>
    /\ output_dirs = {}
    /\ output_files = <<>>
    /\ printed = {}
    /\ error = <<>>
    /\ expansion_mm = 0
    /\ expanded_segmentation = <<>>
    /\ random_value = 0
    /\ random_segmentation = <<>>
    /\ NoTibia
    /\ NoJoint
    /\ NoSlice

\* run_main's call of segment_knee of src/main.py, on an input file that exists.
KneeInit ==
    /\ entry = MainEntry
    /\ input_path = RunMainPath
    /\ \E image \in KneeImages : disk = (input_path :> image)
    /\ NotStarted

\* if not os.path.exists(input_path): raise FileNotFoundError
CheckInputPath ==
    /\ pc = "start"
    /\ IF InputPath(entry, input_path) \in DOMAIN disk
       THEN pc' = "makedirs" /\ UNCHANGED error
       ELSE pc' = "raised" /\ error' = Raised(entry, <<"FileNotFoundError">>)
    /\ UNCHANGED <<data, voxel_sizes, slice_index, segmentation_volume, original_segmentation,
                   expanded_2mm, expanded_4mm, random_1, random_2, tibia_points,
                   runVars, output_dirs, output_files, printed,
                   maskVars, tibiaVars, jointVars, sliceVars>>

\* for path in output_paths.values(): os.makedirs(os.path.dirname(path)); the
\* directory is the first part of a path.
MakeOutputDirs ==
    /\ pc = "makedirs"
    /\ output_dirs' = output_dirs \cup {output_paths(entry)[key][1] : key \in DOMAIN output_paths(entry)}
    /\ pc' = "load"
    /\ UNCHANGED <<data, voxel_sizes, slice_index, segmentation_volume, original_segmentation,
                   expanded_2mm, expanded_4mm, random_1, random_2, tibia_points,
                   runVars, output_files, printed, error,
                   maskVars, tibiaVars, jointVars, sliceVars>>

\* load_nifti_image(input_path), with voxel_sizes the absolute values of the
\* affine's diagonal, and the set-up of the slice loop.
LoadNiftiImage ==
    /\ pc = "load"
    /\ LET img == disk[InputPath(entry, input_path)]
       IN  /\ data' = img.data
           /\ voxel_sizes' = [a \in Axes |-> IF img.affine_diagonal[a] < 0
                                               THEN -img.affine_diagonal[a]
                                               ELSE img.affine_diagonal[a]]
    /\ segmentation_volume' = zeros_like(data')
    /\ slice_index' = StartSlice(DOMAIN data')
    /\ pc' = "slices"
    /\ UNCHANGED <<original_segmentation, expanded_2mm, expanded_4mm, random_1, random_2,
                   tibia_points, runVars, output_dirs, output_files, printed, error,
                   maskVars, tibiaVars, jointVars, sliceVars>>

\* One pass of the slice loop: segment_slice(data[:, i, :]) and the two writes.
SegmentSlice ==
    /\ pc = "slices"
    /\ slice_index < EndSlice(DOMAIN data)
    /\ LET plane == SlicePlane(DOMAIN data, slice_index)
           slice_height == SliceHeight(DOMAIN data)
       IN  IF NoBonePresent(data, plane, bone_threshold)
           THEN UNCHANGED segmentation_volume
           ELSE \E joint \in find_joint_position(create_bone_mask(data, plane, bone_threshold),
                                                 slice_height) :
                   LET masks == segment_slice_masks(data, plane, slice_height, joint)
                   IN  segmentation_volume' =
                          Paint(Paint(segmentation_volume, masks.tibia_mask, 1),
                                masks.femur_mask, 2)
    /\ slice_index' = slice_index + 1
    /\ UNCHANGED <<pc, data, voxel_sizes, original_segmentation, expanded_2mm, expanded_4mm,
                   random_1, random_2, tibia_points, runVars, output_dirs, output_files,
                   printed, error, maskVars, tibiaVars, jointVars, sliceVars>>

ApplyPostprocessing ==
    /\ pc = "slices"
    /\ slice_index >= EndSlice(DOMAIN data)
    /\ segmentation_volume' = apply_3d_postprocessing(segmentation_volume)
    /\ original_segmentation' = segmentation_volume'
    /\ output_files' = save_segmentation(output_files, original_segmentation', "original")
    /\ pc' = "volume_check"
    /\ UNCHANGED <<data, voxel_sizes, slice_index, expanded_2mm, expanded_4mm,
                   random_1, random_2, tibia_points, runVars, output_dirs, printed, error,
                   maskVars, tibiaVars, jointVars, sliceVars>>

\* Faulty variant of the volume check: it looks at the tibia only.
InsufficientTibia(volume) ==
    Cardinality(LabelMask(volume, 1)) < ModelSize(min_bone_volume)

\* tibia_volume < 1000 or femur_volume < 1000
InsufficientBone(volume) ==
    \/ Cardinality(LabelMask(volume, 1)) < ModelSize(min_bone_volume)
    \/ Cardinality(LabelMask(volume, 2)) < ModelSize(min_bone_volume)

\* Faulty variant of the fallback: its result goes through the volume check
\* again.
FallbackRechecked ==
    /\ pc = "volume_check"
    /\ InsufficientBone(segmentation_volume)
    /\ printed' = printed \cup {FallbackWarning}
    /\ segmentation_volume' =
          fallback_segmentation(data, StartSlice(DOMAIN data), EndSlice(DOMAIN data))
    /\ original_segmentation' = segmentation_volume'
    /\ output_files' = save_segmentation(output_files, original_segmentation', "original")
    /\ pc' = "volume_check"
    /\ UNCHANGED <<data, voxel_sizes, slice_index, expanded_2mm, expanded_4mm,
                   random_1, random_2, tibia_points, runVars, output_dirs, error,
                   maskVars, tibiaVars, jointVars, sliceVars>>

FallbackSegmentation ==
    /\ pc = "volume_check"
    /\ InsufficientBone(segmentation_volume)
    /\ printed' = printed \cup {FallbackWarning}
    /\ segmentation_volume' =
          fallback_segmentation(data, StartSlice(DOMAIN data), EndSlice(DOMAIN data))
    /\ original_segmentation' = segmentation_volume'
    /\ output_files' = save_segmentation(output_files, original_segmentation', "original")
    /\ pc' = "expand_2mm"
    /\ UNCHANGED <<data, voxel_sizes, slice_index, expanded_2mm, expanded_4mm,
                   random_1, random_2, tibia_points, runVars, output_dirs, error,
                   maskVars, tibiaVars, jointVars, sliceVars>>

KeepPrimary ==
    /\ pc = "volume_check"
    /\ ~InsufficientBone(segmentation_volume)
    /\ pc' = "expand_2mm"
    /\ UNCHANGED <<data, voxel_sizes, slice_index, segmentation_volume, original_segmentation,
                   expanded_2mm, expanded_4mm, random_1, random_2, tibia_points,
                   runVars, output_dirs, output_files, printed, error,
                   maskVars, tibiaVars, jointVars, sliceVars>>

Expand2mm ==
    /\ pc = "expand_2mm"
    /\ expanded_2mm' = expand_segmentation(original_segmentation, voxel_sizes, expansion_2mm)
    /\ output_files' = save_segmentation(output_files, expanded_2mm', "expanded_2mm")
    /\ pc' = "expand_4mm"
    /\ UNCHANGED <<data, voxel_sizes, slice_index, segmentation_volume, original_segmentation,
                   expanded_4mm, random_1, random_2, tibia_points,
                   runVars, output_dirs, printed, error,
                   maskVars, tibiaVars, jointVars, sliceVars>>

\* Faulty variant of the second expansion: it expands by expansion_2mm again.
Expand4mmBy2mm ==
    /\ pc = "expand_4mm"
    /\ expanded_4mm' = expand_segmentation(original_segmentation, voxel_sizes, expansion_2mm)
    /\ output_files' = save_segmentation(output_files, expanded_4mm', "expanded_4mm")
    /\ pc' = "random_1"
    /\ UNCHANGED <<data, voxel_sizes, slice_index, segmentation_volume, original_segmentation,
                   expanded_2mm, random_1, random_2, tibia_points,
                   runVars, output_dirs, printed, error,
                   maskVars, tibiaVars, jointVars, sliceVars>>

Expand4mm ==
    /\ pc = "expand_4mm"
    /\ expanded_4mm' = expand_segmentation(original_segmentation, voxel_sizes, expansion_4mm)
    /\ output_files' = save_segmentation(output_files, expanded_4mm', "expanded_4mm")
    /\ pc' = "random_1"
    /\ UNCHANGED <<data, voxel_sizes, slice_index, segmentation_volume, original_segmentation,
                   expanded_2mm, random_1, random_2, tibia_points,
                   runVars, output_dirs, printed, error,
                   maskVars, tibiaVars, jointVars, sliceVars>>

Random1 ==
    /\ pc = "random_1"
    /\ \E random_mask \in RandomMasks(ClampRandomValue(random_value_1)) :
          random_1' = generate_random_mask(original_segmentation, expanded_2mm, random_mask)
    /\ output_files' = save_segmentation(output_files, random_1', "random_1")
    /\ pc' = "random_2"
    /\ UNCHANGED <<data, voxel_sizes, slice_index, segmentation_volume, original_segmentation,
                   expanded_2mm, expanded_4mm, random_2, tibia_points,
                   runVars, output_dirs, printed, error,
                   maskVars, tibiaVars, jointVars, sliceVars>>

\* Faulty variant of the second randomization: it reads Expanded 2mm where the
\* source reads Expanded 4mm.
Random2FromExpanded2mm ==
    /\ pc = "random_2"
    /\ \E random_mask \in RandomMasks(ClampRandomValue(random_value_2)) :
          random_2' = generate_random_mask(original_segmentation, expanded_2mm, random_mask)
    /\ output_files' = save_segmentation(output_files, random_2', "random_2")
    /\ pc' = "tibia_points"
    /\ UNCHANGED <<data, voxel_sizes, slice_index, segmentation_volume, original_segmentation,
                   expanded_2mm, expanded_4mm, random_1, tibia_points,
                   runVars, output_dirs, printed, error,
                   maskVars, tibiaVars, jointVars, sliceVars>>

Random2 ==
    /\ pc = "random_2"
    /\ \E random_mask \in RandomMasks(ClampRandomValue(random_value_2)) :
          random_2' = generate_random_mask(original_segmentation, expanded_4mm, random_mask)
    /\ output_files' = save_segmentation(output_files, random_2', "random_2")
    /\ pc' = "tibia_points"
    /\ UNCHANGED <<data, voxel_sizes, slice_index, segmentation_volume, original_segmentation,
                   expanded_2mm, expanded_4mm, random_1, tibia_points,
                   runVars, output_dirs, printed, error,
                   maskVars, tibiaVars, jointVars, sliceVars>>

\* masks, in the order of the dictionary
Masks == <<original_segmentation, expanded_2mm, expanded_4mm, random_1, random_2>>

\* The loop over masks.items(), one find_tibia_lowest_points per mask.
TibiaPointsOfMasks ==
    /\ pc = "tibia_points"
    /\ tibia_points' =
          [k \in 1..Len(MaskNames) |-> find_tibia_lowest_points(Masks[k], voxel_sizes)]
    /\ pc' = "report"
    /\ UNCHANGED <<data, voxel_sizes, slice_index, segmentation_volume,
                   original_segmentation, expanded_2mm, expanded_4mm, random_1, random_2,
                   runVars, output_dirs, output_files, printed, error,
                   maskVars, tibiaVars, jointVars, sliceVars>>

\* The files after save_tibia_points_summary, which only src/main.py calls.
SummarySaved(which, files, points) ==
    IF which = MainEntry THEN ("tibia_points_summary" :> points) @@ files ELSE files

\* The plots, the volume statistics and the summary; segment_knee returns.
Report ==
    /\ pc = "report"
    /\ output_files' = SummarySaved(entry, output_files, tibia_points)
    /\ pc' = "returned"
    /\ UNCHANGED <<data, voxel_sizes, slice_index, segmentation_volume,
                   original_segmentation, expanded_2mm, expanded_4mm, random_1, random_2,
                   tibia_points, runVars, output_dirs, printed, error,
                   maskVars, tibiaVars, jointVars, sliceVars>>

\* The same with an exception inside one of the visualize_ functions, which
\* catch it, print that the visualization is skipped and return.
ReportVisualizationSkipped ==
    /\ pc = "report"
    /\ printed' = printed \cup {VisualizationSkipped}
    /\ output_files' = SummarySaved(entry, output_files, tibia_points)
    /\ pc' = "returned"
    /\ UNCHANGED <<data, voxel_sizes, slice_index, segmentation_volume,
                   original_segmentation, expanded_2mm, expanded_4mm, random_1, random_2,
                   tibia_points, runVars, output_dirs, error,
                   maskVars, tibiaVars, jointVars, sliceVars>>

\* The value segment_knee returns.
ReturnValue ==
    [original |-> original_segmentation, expanded_2mm |-> expanded_2mm,
     expanded_4mm |-> expanded_4mm, random_1 |-> random_1, random_2 |-> random_2,
     tibia_points |-> tibia_points]

\* Faulty variant of a raising call: the exception of the second randomization
\* is caught and the run goes on without Random 2.
FaultSwallowed ==
    /\ pc = "random_2"
    /\ pc' = "tibia_points"
    /\ UNCHANGED <<data, voxel_sizes, slice_index, segmentation_volume,
                   original_segmentation, expanded_2mm, expanded_4mm, random_1, random_2,
                   tibia_points, runVars, output_dirs, output_files, printed, error,
                   maskVars, tibiaVars, jointVars, sliceVars>>

\* A call made in the body of segment_knee raises an exception that nothing
\* inside the call catches: the exception leaves segment_knee.
Fault ==
    /\ pc \in {"makedirs", "load", "slices", "volume_check", "expand_2mm", "expand_4mm",
               "random_1", "random_2", "tibia_points", "report"}
    /\ error' = Raised(entry, <<"Exception">>)
    /\ pc' = "raised"
    /\ UNCHANGED <<data, voxel_sizes, slice_index, segmentation_volume,
                   original_segmentation, expanded_2mm, expanded_4mm, random_1, random_2,
                   tibia_points, runVars, output_dirs, output_files, printed,
                   maskVars, tibiaVars, jointVars, sliceVars>>

\* The runs in which no call raises.
KneeNext ==
    \/ CheckInputPath
    \/ MakeOutputDirs
    \/ LoadNiftiImage
    \/ SegmentSlice
    \/ ApplyPostprocessing
    \/ FallbackSegmentation
    \/ KeepPrimary
    \/ Expand2mm
    \/ Expand4mm
    \/ Random1
    \/ Random2
    \/ TibiaPointsOfMasks
    \/ Report

KneeSpec == KneeInit /\ [][KneeNext]_vars

\* segment_knee at the end of its slice loop, on images whose joint row differs
\* from slice to slice: slice i holds bone in the rows lo..hi of its kind
\* <<joint, lo, hi>>, femur above the joint row and tibia from it on, over the
\* columns first..last.
PostInit ==
    /\ pc = "slices"
    /\ \E columns \in {<<2, 2>>, <<1, 3>>} :
         \E kind \in [1..3 -> {3, 4} \X {<<3, 3>>, <<3, 4>>, <<2, 5>>, <<1, 0>>}] :
            segmentation_volume =
                [p \in Grid(KneeShape) |->
                    IF /\ p[2] \in DOMAIN kind
                       /\ p[1] >= columns[1] /\ p[1] <= columns[2]
                       /\ p[3] >= kind[p[2]][2][1] /\ p[3] <= kind[p[2]][2][2]
                    THEN (IF p[3] < kind[p[2]][1] THEN 2 ELSE 1)
                    ELSE 0]
    /\ data = [p \in DOMAIN segmentation_volume |->
                  IF segmentation_volume[p] = 0 THEN 100 ELSE 250]
    /\ slice_index = EndSlice(DOMAIN data)
    /\ voxel_sizes = <<1, 1, 1>>
    /\ entry = MainEntry
    /\ input_path = RunMainPath
    /\ disk = <<>>
    /\ original_segmentation = <<>>
    /\ expanded_2mm = <<>>
    /\ expanded_4mm = <<>>
    /\ random_1 = <<>>
    /\ random_2 = <<>>
    /\ tibia_points = <<>>
    /\ output_dirs = {}
    /\ output_files = <<>>
    /\ printed = {}
    /\ error = <<>>
    /\ expansion_mm = 0
    /\ expanded_segmentation = <<>>
    /\ random_value = 0
    /\ random_segmentation = <<>>
    /\ NoTibia
    /\ NoJoint
    /\ NoSlice

\* The post-processing, the volume check and the fallback of such a run.
PostSpec == PostInit /\ [][ApplyPostprocessing \/ FallbackSegmentation \/ KeepPrimary]_vars

\* Either copy of segment_knee, called with either path, on any files.
RunInit ==
    /\ entry \in {MainEntry, ComponentsEntry}
    /\ input_path \in Paths
    /\ disk \in UNION {[present -> RunImages] : present \in SUBSET Paths}
    /\ NotStarted

\* All runs: a call may raise, and a plot may fail.
RunNext ==
    \/ KneeNext
    \/ ReportVisualizationSkipped
    \/ Fault

RunSpec == RunInit /\ [][RunNext]_vars

\* ------------------------------------------------------------------ claims
Labels == {1, 2}
SeqRange(seq) == {seq[i] : i \in 1..Len(seq)}
Expanded == pc \in {"expanded", "randomized"}

\* The label volumes segment_knee has produced so far.
Produced ==
    {volume \in {original_segmentation, expanded_2mm, expanded_4mm, random_1, random_2} :
        volume # <<>>}

\* C1: in every label volume the pipeline produces (Original from
\* apply_3d_postprocessing or fallback_segmentation, both expansions, both
\* randomizations) every voxel holds one value of {0, 1, 2}: no other label
\* value appears, and the tibia region and the femur region are disjoint.
C1_LabelDomain ==
    \A volume \in Produced :
        \A p \in DOMAIN volume :
            /\ volume[p] \in {0, 1, 2}
            /\ ~(volume[p] = 1 /\ volume[p] = 2)

\* A finished run in which both bones are in the Original, the expansions'
\* dilated masks contested voxels, and a randomization added ring voxels.
C1_Witness ==
    /\ pc = "returned"
    /\ \A label \in Labels : LabelMask(original_segmentation, label) # {}
    /\ binary_dilation_box(LabelMask(original_segmentation, 1),
                           KernelSizes(voxel_sizes, expansion_2mm),
                           DOMAIN original_segmentation)
          \cap binary_dilation_box(LabelMask(original_segmentation, 2),
                                   KernelSizes(voxel_sizes, expansion_2mm),
                                   DOMAIN original_segmentation) # {}
    /\ random_1 # original_segmentation
    /\ random_2 # expanded_4mm

\* C2: expand_segmentation is monotone per label: every voxel labelled 1 (2) in
\* the input is labelled 1 (2) in the output, also where the two dilated masks
\* overlap and are reverted.
C2_ExpandMonotone ==
    Expanded =>
        \A p \in DOMAIN original_segmentation :
            original_segmentation[p] \in Labels =>
                expanded_segmentation[p] = original_segmentation[p]

\* An original tibia voxel that the dilated femur mask reaches: it is contested
\* and reverted.
C2_Witness ==
    /\ pc = "expanded"
    /\ expansion_mm > 0
    /\ \E p \in LabelMask(original_segmentation, 1) :
          /\ p \in binary_dilation_box(LabelMask(original_segmentation, 2),
                                       KernelSizes(voxel_sizes, expansion_mm),
                                       DOMAIN original_segmentation)
          /\ expanded_segmentation[p] = 1

\* C3: with the expanded volume made by expand_segmentation from the same
\* original, per label: original region \subseteq randomized region \subseteq
\* expanded region, for every random_value and every outcome of the draws.
C3_RandomBetween ==
    pc = "randomized" =>
        \A label \in Labels :
            /\ LabelMask(original_segmentation, label)
                  \subseteq LabelMask(random_segmentation, label)
            /\ LabelMask(random_segmentation, label)
                  \subseteq LabelMask(expanded_segmentation, label)

\* Both labels present and a ring that the draws kept in part.
C3_Witness ==
    /\ pc = "randomized"
    /\ LabelMask(original_segmentation, 1) # {}
    /\ LabelMask(original_segmentation, 2) # {}
    /\ \E label \in Labels :
          /\ LabelMask(random_segmentation, label) # LabelMask(original_segmentation, label)
          /\ LabelMask(random_segmentation, label) # LabelMask(expanded_segmentation, label)

\* C4: random_value = 1.0 gives the expanded volume voxel for voxel and
\* random_value = 0.0 the original volume voxel for voxel, whatever the draws.
C4_RandomEnds ==
    pc = "randomized" =>
        /\ random_value = 100 => random_segmentation = expanded_segmentation
        /\ random_value = 0 => random_segmentation = original_segmentation

\* random_value = 1.0 on a volume whose two labels both have a ring.
C4_Witness ==
    /\ pc = "randomized"
    /\ random_value = 100
    /\ \A label \in Labels :
          ExpansionRegion(original_segmentation, expanded_segmentation, label) # {}
    /\ random_segmentation = expanded_segmentation

\* C5: expand_segmentation with expansion_mm = 0 returns a volume identical to
\* its input.
C5_ZeroExpansionIdentity ==
    (Expanded /\ expansion_mm = 0) => expanded_segmentation = original_segmentation

\* expansion_mm = 0 on a volume holding both labels and background.
C5_Witness ==
    /\ pc = "expanded"
    /\ expansion_mm = 0
    /\ \A label \in {0, 1, 2} : LabelMask(original_segmentation, label) # {}
    /\ expanded_segmentation = original_segmentation

\* C6 as claimed: with expansion_mm = 0 a non-empty label region with free
\* background around it (here: the other label absent, background present)
\* comes out strictly larger.
C6_ZeroExpansionGrows ==
    (Expanded /\ expansion_mm = 0) =>
        \A label \in Labels :
            (/\ LabelMask(original_segmentation, label) # {}
             /\ LabelMask(original_segmentation, 3 - label) = {}
             /\ LabelMask(original_segmentation, 0) # {})
            => /\ LabelMask(original_segmentation, label)
                     \subseteq LabelMask(expanded_segmentation, label)
               /\ LabelMask(original_segmentation, label)
                     # LabelMask(expanded_segmentation, label)

\* C6 amended: with expansion_mm = 0 the floor max(1, ks) makes the kernel
\* 1 x 1 x 1, and no label region grows: each has as many voxels after as before.
C6_ZeroExpansionNoGrowth ==
    (Expanded /\ expansion_mm = 0) =>
        /\ \A a \in Axes : KernelSizes(voxel_sizes, expansion_mm)[a] = 1
        /\ \A label \in Labels :
              Cardinality(LabelMask(expanded_segmentation, label))
                 = Cardinality(LabelMask(original_segmentation, label))

\* expansion_mm = 0 on a lone label region with background around it.
C6_Witness ==
    /\ pc = "expanded"
    /\ expansion_mm = 0
    /\ LabelMask(original_segmentation, 1) # {}
    /\ LabelMask(original_segmentation, 2) = {}
    /\ LabelMask(original_segmentation, 0) # {}

\* C7: per label and axis, the output region's bounding box extends past the
\* input region's by at most ceil(expansion_mm / voxel_size) voxels on either
\* side (and an absent label stays absent).
C7_BoundingBox ==
    Expanded =>
        \A label \in Labels :
            LET before == LabelMask(original_segmentation, label)
                after == LabelMask(expanded_segmentation, label)
            IN  \A v \in after : \A a \in Axes :
                    /\ \E p \in before : v[a] >= p[a] - CeilDiv(expansion_mm, voxel_sizes[a])
                    /\ \E p \in before : v[a] <= p[a] + CeilDiv(expansion_mm, voxel_sizes[a])

\* A region whose bounding box grew on the low and on the high side of an axis.
C7_Witness ==
    /\ pc = "expanded"
    /\ \E label \in Labels : \E a \in Axes :
          LET before == LabelMask(original_segmentation, label)
              after == LabelMask(expanded_segmentation, label)
          IN  /\ before # {}
              /\ \E v \in after : \A p \in before : v[a] < p[a]
              /\ \E v \in after : \A p \in before : v[a] > p[a]

\* The strict local minima of the middle third at window indices 2 .. len - 3,
\* read off the state: w(j) is the window's row j.
JointCandidates ==
    LET middle_start == height \div 3
        len == ((2 * height) \div 3) - middle_start
        w(j) == smooth_profile[middle_start + j + 1]
    IN  {j \in 2..(len - 3) : w(j) < w(j - 1) /\ w(j) < w(j + 1)}

\* The joint is the candidate of the lowest profile value, the first on ties.
JointIsLowestCandidate ==
    LET middle_start == height \div 3
        w(j) == smooth_profile[middle_start + j + 1]
    IN  \E j \in JointCandidates :
            /\ joint_position = middle_start + j
            /\ \A k \in JointCandidates : w(k) >= w(j) /\ (k < j => w(k) > w(j))

\* C8: find_joint_position returns height // 2 whenever the middle third
\* [height // 3, 2 * height // 3) of the smoothed profile has no strict local
\* minimum at window indices 2 .. len - 3, a window of 5 rows or fewer
\* included; otherwise it returns height // 3 plus the index of the candidate
\* with the lowest profile value, the first on ties.
C8_JointPosition ==
    pc = "joint" =>
        IF JointCandidates = {} \/ ((2 * height) \div 3) - (height \div 3) <= 5
        THEN joint_position = height \div 2
        ELSE JointIsLowestCandidate

\* Two local minima of the same depth: the first is the joint, and it is not
\* the midpoint.
C8_Witness ==
    /\ pc = "joint"
    /\ LET middle_start == height \div 3
           w(j) == smooth_profile[middle_start + j + 1]
       IN  \E j, k \in JointCandidates :
              j < k /\ w(j) = w(k) /\ joint_position = middle_start + j
    /\ joint_position # height \div 2

\* C9: on a volume with no voxel labelled 1, find_tibia_lowest_points returns
\* (None, None, None, None), whatever the femur voxels and the voxel spacing.
C9_NoTibiaAllNone ==
    (pc = "landmarks" /\ LabelMask(original_segmentation, 1) = {}) =>
        /\ tibia_result.medial_lowest = None
        /\ tibia_result.lateral_lowest = None
        /\ tibia_result.medial_voxel = None
        /\ tibia_result.lateral_voxel = None

\* A volume with femur voxels and no tibia voxel, and an anisotropic spacing.
C9_Witness ==
    /\ pc = "landmarks"
    /\ LabelMask(original_segmentation, 1) = {}
    /\ LabelMask(original_segmentation, 2) # {}
    /\ voxel_sizes # <<1, 1, 1>>

\* C10: the lateral set (X < mean X) and the medial set (X >= mean X) partition
\* the tibia voxels: every voxel labelled 1 is in exactly one of them, and no
\* other voxel is in either.
C10_TotalPartition ==
    pc = "landmarks" =>
        LET tibia == {ScaleToMm(p, voxel_sizes) : p \in LabelMask(original_segmentation, 1)}
            lateral == SeqRange(lateral_points)
            medial == SeqRange(medial_points)
        IN  /\ lateral \cup medial = tibia
            /\ lateral \cap medial = {}
            /\ Len(lateral_points) + Len(medial_points) = Cardinality(tibia)

\* Tibia voxels on both sides, one of them exactly at the mean X.
C10_Witness ==
    /\ pc = "landmarks"
    /\ lateral_points # <<>>
    /\ \E i \in 1..Len(medial_points) :
          medial_points[i][1] * (Len(lateral_points) + Len(medial_points))
             = SumX(lateral_points) + SumX(medial_points)

\* C11: every voxel landmark find_tibia_lowest_points returns is the index of
\* the tibia voxel its mm point was scaled from, so it is a voxel labelled 1 of
\* the input volume and scales back to the mm point returned with it.
ReturnedLandmarks ==
    {<<tibia_result.medial_lowest, tibia_result.medial_voxel>>,
     <<tibia_result.lateral_lowest, tibia_result.lateral_voxel>>}

C11_RoundTrip ==
    pc = "float_landmarks" =>
        \A landmark \in ReturnedLandmarks :
            landmark[1] # None =>
                /\ landmark[2] \in LabelMask(original_segmentation, 1)
                /\ ScaleToFloatMm(landmark[2], voxel_sizes) = landmark[1]

\* The bone of the CT volume before the middle row of Z (the upper cuboid) and
\* from it on (the lower cuboid).
UpperCuboid ==
    {p \in DOMAIN data : data[p] > bone_threshold /\ p[3] < SliceHeight(DOMAIN data) \div 2}

LowerCuboid ==
    {p \in DOMAIN data : data[p] > bone_threshold /\ p[3] >= SliceHeight(DOMAIN data) \div 2}

\* Both cuboids are there, wide enough for two sides and large enough for the
\* size filters.
TwoCuboids ==
    /\ Cardinality(UpperCuboid) >= ModelSize(volume_min_size)
    /\ Cardinality(LowerCuboid) >= ModelSize(volume_min_size)
    /\ Cardinality({p[1] : p \in LowerCuboid}) >= 2

\* The cuboids lie within the slices segmented and off every face of the volume.
CuboidsInside ==
    \A p \in UpperCuboid \cup LowerCuboid :
        /\ p[2] >= StartSlice(DOMAIN data) /\ p[2] < EndSlice(DOMAIN data)
        /\ \A a \in Axes : p[a] > 0 /\ p[a] < KneeShape[a] - 1

\* The landmarks of the Original mask lie in the lower cuboid at row z of Z.
LandmarksOnFace(z) ==
    /\ tibia_points[1].medial_voxel # None
    /\ tibia_points[1].lateral_voxel # None
    /\ \A voxel \in {tibia_points[1].medial_voxel, tibia_points[1].lateral_voxel} :
          voxel \in LowerCuboid /\ voxel[3] = z

\* C12: for two cuboids stacked along Z, the lower cuboid (from the middle row
\* on) is labelled tibia, the upper one femur, and the medial and lateral
\* landmarks of the Original mask both lie on the maximum-Z face of the lower
\* cuboid.
C12_LandmarksOnMaxZFace ==
    (pc = "returned" /\ TwoCuboids /\ CuboidsInside) =>
        /\ LowerCuboid \subseteq LabelMask(original_segmentation, 1)
        /\ UpperCuboid \subseteq LabelMask(original_segmentation, 2)
        /\ LandmarksOnFace(CHOOSE z \in {p[3] : p \in LowerCuboid} :
                               \A p \in LowerCuboid : p[3] <= z)

\* C13 as stated: no variant takes another variant as an input, so putting
\* another volume in the place of Expanded 2mm changes nothing of Random 1,
\* and likewise for Expanded 4mm and Random 2, whatever the draws.
C13_NoVariantIsAnInput ==
    pc = "returned" =>
        /\ \A random_mask \in RandomMasks(ClampRandomValue(random_value_1)) :
              generate_random_mask(original_segmentation, expanded_4mm, random_mask)
                  = generate_random_mask(original_segmentation, expanded_2mm, random_mask)
        /\ \A random_mask \in RandomMasks(ClampRandomValue(random_value_2)) :
              generate_random_mask(original_segmentation, expanded_2mm, random_mask)
                  = generate_random_mask(original_segmentation, expanded_4mm, random_mask)

\* C13: each variant, in the state segment_knee reaches by computing it, is a
\* function of these inputs and no other: the two expansions of the Original
\* only; Random 1 of the Original, Expanded 2mm and the draws; Random 2 of
\* the Original, Expanded 4mm and the draws.
C13_VariantInputs ==
    /\ pc = "expand_4mm" =>
          expanded_2mm = expand_segmentation(original_segmentation, voxel_sizes, expansion_2mm)
    /\ pc = "random_1" =>
          expanded_4mm = expand_segmentation(original_segmentation, voxel_sizes, expansion_4mm)
    /\ pc = "random_2" =>
          \E random_mask \in RandomMasks(ClampRandomValue(random_value_1)) :
              random_1 = generate_random_mask(original_segmentation, expanded_2mm, random_mask)
    /\ pc = "tibia_points" =>
          \E random_mask \in RandomMasks(ClampRandomValue(random_value_2)) :
              random_2 = generate_random_mask(original_segmentation, expanded_4mm, random_mask)

C13_Witness ==
    /\ pc = "tibia_points"
    /\ expanded_2mm # expanded_4mm
    /\ random_1 # original_segmentation
    /\ random_2 # original_segmentation
    /\ \E p \in DOMAIN random_2 : random_2[p] # 0 /\ expanded_2mm[p] = 0

\* C14: the fallback segmenter runs exactly when, after 3-D post-processing,
\* the tibia or the femur voxel count is below the minimum; once it has run,
\* the Original is its result and stays so, the file saved under 'original'
\* holds that result, and each derived variant and each landmark entry is
\* computed from it.
C14_FallbackReplaces ==
    /\ [][pc = "volume_check" =>
             ((FallbackWarning \in printed')
                 <=> (\/ Cardinality(LabelMask(segmentation_volume, 1))
                            < ModelSize(min_bone_volume)
                      \/ Cardinality(LabelMask(segmentation_volume, 2))
                            < ModelSize(min_bone_volume)))]_vars
    /\ [][pc \notin {"slices", "volume_check"} => UNCHANGED original_segmentation]_vars
    /\ [](FallbackWarning \in printed =>
            /\ pc = "expand_2mm" => original_segmentation
                      = fallback_segmentation(data, StartSlice(DOMAIN data),
                                              EndSlice(DOMAIN data))
            /\ output_files["original"] = astype_int16(original_segmentation)
            /\ pc = "expand_4mm" =>
                  expanded_2mm
                      = expand_segmentation(original_segmentation, voxel_sizes, expansion_2mm)
            /\ pc = "random_1" =>
                  expanded_4mm
                      = expand_segmentation(original_segmentation, voxel_sizes, expansion_4mm)
            /\ pc = "random_2" =>
                  \E random_mask \in RandomMasks(ClampRandomValue(random_value_1)) :
                      random_1 = generate_random_mask(original_segmentation, expanded_2mm,
                                                      random_mask)
            /\ pc = "tibia_points" =>
                  \E random_mask \in RandomMasks(ClampRandomValue(random_value_2)) :
                      random_2 = generate_random_mask(original_segmentation, expanded_4mm,
                                                      random_mask)
            /\ pc = "report" =>
                  \A k \in 1..Len(MaskNames) :
                      tibia_points[k] = find_tibia_lowest_points(Masks[k], voxel_sizes))

C14_Witness ==
    /\ pc = "returned"
    /\ FallbackWarning \in printed
    /\ \A label \in Labels : LabelMask(original_segmentation, label) # {}
    /\ output_files["original"]
          = astype_int16(fallback_segmentation(data, StartSlice(DOMAIN data),
                                               EndSlice(DOMAIN data)))
    /\ tibia_points[1].medial_voxel # None

\* C15: when the file named by the caller's input_path does not exist,
\* segment_knee raises before segmentation begins: no volume is loaded, no
\* output directory is made and no output file is written.
C15_MissingInputAborts ==
    (input_path \notin DOMAIN disk /\ pc # "start") =>
        /\ pc = "raised"
        /\ data = <<>>
        /\ segmentation_volume = <<>>
        /\ output_dirs = {}
        /\ DOMAIN output_files = {}

\* A returned result holds the five mask variants, each a label volume over
\* the grid of the volume loaded, and a landmark entry for each of the five.
CompleteResult ==
    /\ \A key \in {"original", "expanded_2mm", "expanded_4mm", "random_1", "random_2"} :
          DOMAIN ReturnValue[key] = DOMAIN data /\ DOMAIN data # {}
    /\ Len(ReturnValue.tibia_points) = Len(MaskNames)

\* A run that has not raised holds no exception; a run that raised holds
\* CustomException of the cause.
ReturnedOrRaised ==
    /\ pc # "raised" => error = <<>>
    /\ pc = "raised" => Len(error) > 1 /\ error[1] = "CustomException"

C17_KeepsOriginal ==
    pc = "randomized" =>
        \A label \in Labels :
            LabelMask(original_segmentation, label)
                \subseteq LabelMask(random_segmentation, label)

\* The dilation of one label's mask that expand_segmentation computed.
Dilated(label) ==
    binary_dilation_box(LabelMask(original_segmentation, label),
                        KernelSizes(voxel_sizes, expansion_mm),
                        DOMAIN original_segmentation)

\* C18: collision policy of expand_segmentation.  A voxel in both dilated masks
\* has its input label in the output (background stays background, an original
\* tibia or femur voxel keeps its label); any other voxel has the label of the
\* one dilated mask that covers it, and 0 when neither does.
C18_CollisionPolicy ==
    pc = "expanded" =>
        \A p \in DOMAIN original_segmentation :
            expanded_segmentation[p] =
                IF p \in Dilated(1) /\ p \in Dilated(2) THEN original_segmentation[p]
                ELSE IF p \in Dilated(1) THEN 1
                ELSE IF p \in Dilated(2) THEN 2
                ELSE 0

\* One expansion with a contested background voxel, a contested original
\* voxel, a voxel only the tibia dilation covers and one only the femur
\* dilation covers.
C18_Witness ==
    /\ pc = "expanded"
    /\ \E p, q \in Dilated(1) \cap Dilated(2) :
          /\ original_segmentation[p] = 0
          /\ expanded_segmentation[p] = 0
          /\ original_segmentation[q] \in Labels
          /\ expanded_segmentation[q] = original_segmentation[q]
    /\ \E p \in Dilated(1) \ Dilated(2) :
          original_segmentation[p] = 0 /\ expanded_segmentation[p] = 1
    /\ \E p \in Dilated(2) \ Dilated(1) :
          original_segmentation[p] = 0 /\ expanded_segmentation[p] = 2

\* C19: on every slice for which segment_slice returns masks, the femur mask
\* lies in the bone mask and in the rows before joint_position, the tibia mask
\* lies in the bone mask and in the rows from joint_position on.
C19_MasksSplitBone ==
    pc = "masks_returned" =>
        /\ femur_mask \subseteq bone_mask
        /\ \A p \in femur_mask : p[3] < joint_position
        /\ tibia_mask \subseteq bone_mask
        /\ \A p \in tibia_mask : p[3] >= joint_position

\* A slice with bone in the row at joint_position and on both sides of it, the
\* joint found at a minimum of the profile and not at the middle row.
C19_Witness ==
    /\ pc = "masks_returned"
    /\ joint_position # height \div 2
    /\ \E p \in bone_mask : p[3] = joint_position
    /\ femur_mask # {}
    /\ tibia_mask # {}
    /\ femur_mask \cup tibia_mask = bone_mask

\* The point `lowest` is a point of `points` of least Z, and of the points
\* tied at that Z the one of lowest X, then lowest Y.
LowestFirstInScan(lowest, points) ==
    /\ lowest \in SeqRange(points)
    /\ \A q \in SeqRange(points) :
          /\ q[3] >= lowest[3]
          /\ q[3] = lowest[3] =>
                \/ lowest[1] < q[1]
                \/ lowest[1] = q[1] /\ lowest[2] <= q[2]

\* C20: for each side that has tibia voxels, the mm point returned by
\* find_tibia_lowest_points has the least physical Z of that side's voxels,
\* and among the voxels tied at that Z it is the first in scan order (lowest
\* X index, then lowest Y index).
C20_LowestPerSide ==
    pc = "landmarks" =>
        /\ Len(lateral_points) > 0 =>
              LowestFirstInScan(tibia_result.lateral_lowest, lateral_points)
        /\ Len(medial_points) > 0 =>
              LowestFirstInScan(tibia_result.medial_lowest, medial_points)

\* Both sides have voxels; one side has two voxels tied at its least Z, the
\* other side's lowest point lies at another Z.
C20_Witness ==
    /\ pc = "landmarks"
    /\ Len(lateral_points) > 0
    /\ Len(medial_points) > 0
    /\ tibia_result.lateral_lowest[3] # tibia_result.medial_lowest[3]
    /\ \E points \in {lateral_points, medial_points} :
          \E i, j \in 1..Len(points) :
              /\ i < j
              /\ points[i][3] = points[j][3]
              /\ points[i] \in {tibia_result.lateral_lowest, tibia_result.medial_lowest}

\* The stages of a run of segment_knee that returns, in the order the claim
\* gives them.
StageOrder ==
    <<"start", "makedirs", "load", "slices", "volume_check", "expand_2mm", "expand_4mm",
      "random_1", "random_2", "tibia_points", "report", "returned">>

StageOf(stage) == CHOOSE k \in 1..Len(StageOrder) : StageOrder[k] = stage

\* C21: a run of segment_knee that returns goes through its stages in one
\* order: the slice loop over every i of [int(0.2 * extent), int(0.8 * extent))
\* in turn, the 3-D post-processing, the volume check, at most one fallback
\* (made at the volume check, its result not checked again), the 2 mm and the
\* 4 mm expansion, the two randomizations, then find_tibia_lowest_points once
\* for each of the five masks; each value is computed in its own stage only.
C21_StageOrder ==
    [][/\ pc' # pc => StageOf(pc') = StageOf(pc) + 1
       /\ pc' = pc => pc = "slices"
       /\ pc = "load" => slice_index' = (2 * SliceCount(DOMAIN data')) \div 10
       /\ pc = "slices" /\ pc' = "slices" =>
             /\ slice_index < (8 * SliceCount(DOMAIN data)) \div 10
             /\ slice_index' = slice_index + 1
             /\ UNCHANGED original_segmentation
       /\ pc = "slices" /\ pc' # "slices" =>
             /\ slice_index = (8 * SliceCount(DOMAIN data)) \div 10
             /\ original_segmentation' # original_segmentation
       /\ pc \notin {"load", "slices"} => UNCHANGED slice_index
       /\ pc # "volume_check" => (FallbackWarning \in printed' <=> FallbackWarning \in printed)
       /\ pc = "volume_check" /\ original_segmentation' # original_segmentation =>
             FallbackWarning \in printed' \ printed
       /\ pc \notin {"slices", "volume_check"} => UNCHANGED original_segmentation
       /\ expanded_2mm' # expanded_2mm <=> pc = "expand_2mm"
       /\ expanded_4mm' # expanded_4mm <=> pc = "expand_4mm"
       /\ random_1' # random_1 <=> pc = "random_1"
       /\ random_2' # random_2 <=> pc = "random_2"
       /\ tibia_points' # tibia_points <=> pc = "tibia_points"
       /\ pc = "tibia_points" => Len(tibia_points') = Len(Masks)]_vars

\* A run that returned after a fallback whose result is still under the
\* minimum, with every slice of the range visited and five landmark entries.
C21_Witness ==
    /\ pc = "returned"
    /\ FallbackWarning \in printed
    /\ InsufficientBone(original_segmentation)
    /\ LabelMask(original_segmentation, 1) # {}
    /\ slice_index = EndSlice(DOMAIN data)
    /\ slice_index > StartSlice(DOMAIN data) + 1
    /\ Len(tibia_points) = Len(MaskNames)
    /\ random_2 # expanded_4mm

\* C22: the passes of the slice loop are independent.  Taken in any order,
\* with their writes interleaved, each pass has written only in its own plane
\* Y = i (a plane whose pass has not begun is all zero, and so is every plane
\* outside [start_slice, end_slice)), and once all have finished the volume
\* is one the sequential loop produces.
C22_SlicesIndependent ==
    pc = "any_order" =>
        /\ \A p \in DOMAIN segmentation_volume :
              (p[2] \notin DOMAIN slice_stage \/ slice_stage[p[2]].written = 0) =>
                  segmentation_volume[p] = 0
        /\ (\A i \in DOMAIN slice_stage : slice_stage[i].written = 2) =>
              segmentation_volume \in
                  AssembleFrom(zeros_like(data), data,
                               (2 * KneeShape[2]) \div 10, (8 * KneeShape[2]) \div 10)

\* All passes finished on a volume whose planes differ and whose planes
\* outside the range hold bone; the last pass to begin was not the last slice.
C22_Witness ==
    /\ pc = "any_order"
    /\ \A i \in DOMAIN slice_stage : slice_stage[i].written = 2
    /\ \E p \in DOMAIN data : p[2] \notin DOMAIN slice_stage /\ data[p] > bone_threshold
    /\ \E i, j \in DOMAIN slice_stage :
          /\ LabelMask(segmentation_volume, 1) \cap SlicePlane(DOMAIN data, i) # {}
          /\ LabelMask(segmentation_volume, 2) \cap SlicePlane(DOMAIN data, i) = {}
          /\ LabelMask(segmentation_volume, 2) \cap SlicePlane(DOMAIN data, j) # {}

\* Writing the two masks on a blank volume gives the same volume whichever
\* label is written first.
WriteOrderFree(masks) ==
    LET blank == zeros_like(data)
    IN  Paint(Paint(blank, masks.tibia_mask, 1), masks.femur_mask, 2)
            = Paint(Paint(blank, masks.femur_mask, 2), masks.tibia_mask, 1)

\* C23: the femur mask and the tibia mask of one slice are disjoint, those of
\* segment_slice and those of the fallback's loop alike, so the femur write
\* overwrites no tibia voxel of the slice (the slice just written holds label 1
\* on the whole tibia mask) and the order of the two writes does not matter.
C23_SliceMasksDisjoint ==
    /\ (pc = "slices" /\ slice_index > StartSlice(DOMAIN data)) =>
          \A masks \in SliceMasksAt(data, slice_index - 1) :
              /\ masks.femur_mask \cap masks.tibia_mask = {}
              /\ masks.tibia_mask \subseteq LabelMask(segmentation_volume, 1)
              /\ masks.femur_mask \subseteq LabelMask(segmentation_volume, 2)
              /\ WriteOrderFree(masks)
    /\ (pc = "expand_2mm" /\ FallbackWarning \in printed) =>
          \A i \in StartSlice(DOMAIN data)..(EndSlice(DOMAIN data) - 1) :
              /\ FallbackSliceMasks(data, i).femur_mask
                    \cap FallbackSliceMasks(data, i).tibia_mask = {}
              /\ WriteOrderFree(FallbackSliceMasks(data, i))

\* A run in which the fallback was applied, on a volume with a slice where
\* both masks of the fallback are non-empty and segment_slice found bone.
C23_Witness ==
    /\ pc = "expand_2mm"
    /\ FallbackWarning \in printed
    /\ \E i \in StartSlice(DOMAIN data)..(EndSlice(DOMAIN data) - 1) :
          /\ FallbackSliceMasks(data, i).femur_mask # {}
          /\ FallbackSliceMasks(data, i).tibia_mask # {}
          /\ \E masks \in SliceMasksAt(data, i) :
                masks.femur_mask \cup masks.tibia_mask # {}

\* C24: with at least one tibia voxel in the volume, find_tibia_lowest_points
\* returns a medial point and a medial voxel that are not None; the lateral
\* point and voxel are None exactly when all tibia voxels have one X index;
\* and on each side the mm point is None exactly when the voxel is.
C24_MedialNeverEmpty ==
    (pc = "float_landmarks" /\ LabelMask(original_segmentation, 1) # {}) =>
        /\ tibia_result.medial_lowest # None
        /\ tibia_result.medial_voxel # None
        /\ tibia_result.lateral_lowest = None
              <=> Cardinality({p[1] : p \in LabelMask(original_segmentation, 1)}) = 1
        /\ tibia_result.lateral_voxel = None <=> tibia_result.lateral_lowest = None
        /\ tibia_result.medial_voxel = None <=> tibia_result.medial_lowest = None

\* C25: the volume apply_3d_postprocessing returns, and the one
\* fallback_segmentation returns, holds either no femur voxel or at least the
\* minimum component size of them, so the femur half of the volume check is
\* met only by a volume without femur.
C25_FemurAbsentOrLarge ==
    /\ pc = "volume_check" =>
          LET femur_volume == Cardinality(LabelMask(original_segmentation, 2))
          IN  /\ femur_volume = 0 \/ femur_volume >= ModelSize(volume_min_size)
              /\ femur_volume < ModelSize(min_bone_volume) => femur_volume = 0
    /\ (pc = "expand_2mm" /\ FallbackWarning \in printed) =>
          LET femur_volume == Cardinality(LabelMask(original_segmentation, 2))
          IN  femur_volume = 0 \/ femur_volume >= ModelSize(fallback_volume_min_size)

\* A post-processed volume whose femur overwrote tibia voxels: its tibia count
\* lies strictly between 0 and the minimum, its femur count does not.
C25_Witness ==
    /\ pc = "volume_check"
    /\ Cardinality(LabelMask(original_segmentation, 1)) > 0
    /\ Cardinality(LabelMask(original_segmentation, 1)) < ModelSize(min_bone_volume)
    /\ Cardinality(LabelMask(original_segmentation, 2)) >= ModelSize(volume_min_size)
    /\ \E p \in LabelMask(segmentation_volume, 2) : data[p] = 250

\* C26 as stated: every voxel labelled 1 (2) in the 2 mm expansion is labelled
\* 1 (2) in the 4 mm expansion of the same original.
C26_ExpansionNested ==
    pc = "random_1" =>
        \A label \in Labels :
            LabelMask(expanded_2mm, label) \subseteq LabelMask(expanded_4mm, label)

\* The voxels in both masks dilated for the 4 mm expansion.
Contested4mm ==
    LET dilated(label) ==
            binary_dilation_box(LabelMask(original_segmentation, label),
                                KernelSizes(voxel_sizes, expansion_4mm),
                                DOMAIN original_segmentation)
    IN  dilated(1) \cap dilated(2)

\* C26: a voxel labelled 1 (2) in the 2 mm expansion has the same label in the
\* 4 mm expansion unless both masks dilated for 4 mm cover it, where it has
\* its label of the original: an original voxel keeps its label, a voxel the
\* 2 mm expansion added is background again.
C26_NestedUnlessContested ==
    pc = "random_1" =>
        LET contested == Contested4mm
        IN  \A p \in LabelMask(expanded_2mm, 1) \cup LabelMask(expanded_2mm, 2) :
                expanded_4mm[p] = IF p \in contested THEN original_segmentation[p]
                                  ELSE expanded_2mm[p]

\* Both expansions made; a voxel the 2 mm expansion labelled is background in
\* the 4 mm expansion, another one it added keeps its label there.
C26_Witness ==
    /\ pc = "random_1"
    /\ \E p, q \in DOMAIN expanded_2mm :
          /\ expanded_2mm[p] \in Labels
          /\ expanded_4mm[p] = 0
          /\ original_segmentation[q] = 0
          /\ expanded_2mm[q] \in Labels
          /\ expanded_4mm[q] = expanded_2mm[q]

====
